---- MODULE Spec2Model ----
(***************************************************************************)
(* A model of the thallium_ecs crate: the entity registry (entities.rs),   *)
(* the component tables (component_container.rs), the App facade (app.rs), *)
(* the query views (query.rs), the scheduler (system_set.rs) and the       *)
(* tick-based change detection (system.rs, query.rs).                      *)
(*                                                                         *)
(* Entity ids are 0-based as in the source; a Vec v is a sequence and      *)
(* v[id] of the source is v[id + 1] here.  Option<T> is a sequence of      *)
(* length 0 (None) or 1 (Some).  A HashMap is a function whose DOMAIN is   *)
(* its key set.                                                            *)
(***************************************************************************)
EXTENDS Integers, Sequences, FiniteSets, TLC

\* ------------------------------------------------------------------ bounds
MaxEntities == 3
MaxGeneration == 4
MaxTick == 1
MaxMany == 2
MaxParams == 2
MaxSystems == 3
MaxNestedSets == 1
MaxRunEntities == 1
MaxValue == 3
MaxQueryEntities == 2
MaxCommandEntities == 4
MaxCommandSystems == 2
WordBits == 3

ComponentTypes == {"A"}
ComponentValues == {1, 2}

\* ------------------------------------------------------------ Option, bits
None == << >>
Some(x) == << x >>
IsSome(o) == o # << >>
Unwrap(o) == o[1]

\* the HashMap f after insert(k, v)
MapInsert(f, k, v) == [x \in DOMAIN f \cup {k} |-> IF x = k THEN v ELSE f[x]]

\* a map without the keys
Detach(att, keys) == [k \in DOMAIN att \ keys |-> att[k]]

\* g | 1 on a generation
SetLowBit(g) == IF g % 2 = 0 THEN g + 1 ELSE g
\* g & !1 on a generation
ClearLowBit(g) == IF g % 2 = 0 THEN g ELSE g - 1

\* ---------------------------------------------------------- entities.rs
Entity(id, generation) == [id |-> id, generation |-> generation]

NEW_GENERATION == 2

EntityMap_new == [entities |-> << >>, next_free_entity |-> 0]

\* The `while let` loop of create_entity: the cursor is incremented before
\* the slot it has just read is tested for being dead.
RECURSIVE advance_next_free_entity(_, _)
advance_next_free_entity(ents, n) ==
    IF n < Len(ents)
    THEN IF ents[n + 1].generation % 2 # 0
         THEN n + 1
         ELSE advance_next_free_entity(ents, n + 1)
    ELSE n

EntityMap_create_entity(em) ==
    LET id == em.next_free_entity IN
    IF id < Len(em.entities)
    THEN LET generation == em.entities[id + 1].generation + 1
             ents == [em.entities EXCEPT ![id + 1].generation = generation]
         IN  [map |-> [entities |-> ents,
                       next_free_entity |-> advance_next_free_entity(ents, id)],
              entity |-> Entity(id, generation)]
    ELSE LET ents == Append(em.entities,
                            [generation |-> NEW_GENERATION, types |-> {}])
         IN  [map |-> [entities |-> ents, next_free_entity |-> Len(ents)],
              entity |-> Entity(id, NEW_GENERATION)]

\* usize::MAX of a word of WordBits bits
WordMax == 2 ^ WordBits - 1

\* an addition that wraps past zero to the first generation
generation_add_one_wrapping(generation, overflow_checks) ==
    IF generation + 1 > WordMax THEN Some(NEW_GENERATION) ELSE Some(generation + 1)

\* NonZeroUsize::new(generation.get() + 1).unwrap() in a word of WordBits
\* bits: with overflow checks the addition panics, without them it wraps
\* to 0, NonZeroUsize::new gives None and the unwrap panics.  None is the
\* panic.
generation_add_one(generation, overflow_checks) ==
    IF overflow_checks
    THEN IF generation + 1 > WordMax THEN None ELSE Some(generation + 1)
    ELSE LET wrapped == (generation + 1) % (2 ^ WordBits)
         IN  IF wrapped = 0 THEN None ELSE Some(wrapped)

\* EntityMap::create_entity on a registry whose generations are words of
\* WordBits bits, built with or without overflow checks
EntityMap_create_entity_word(em, overflow_checks) ==
    LET id == em.next_free_entity IN
    IF id < Len(em.entities)
    THEN LET generation == generation_add_one(em.entities[id + 1].generation,
                                              overflow_checks)
         IN  IF generation = None
             THEN [panic |-> TRUE, map |-> em, entity |-> Entity(id, 0)]
             ELSE LET ents == [em.entities EXCEPT
                                  ![id + 1].generation = Unwrap(generation)]
                  IN  [panic |-> FALSE,
                       map |-> [entities |-> ents,
                                next_free_entity |->
                                    advance_next_free_entity(ents, id)],
                       entity |-> Entity(id, Unwrap(generation))]
    ELSE LET ents == Append(em.entities,
                            [generation |-> NEW_GENERATION, types |-> {}])
         IN  [panic |-> FALSE,
              map |-> [entities |-> ents, next_free_entity |-> Len(ents)],
              entity |-> Entity(id, NEW_GENERATION)]

EntityMap_entity_exists_any_generation(em, entity) ==
    entity.id < Len(em.entities)

EntityMap_entity_exists(em, entity) ==
    /\ entity.id < Len(em.entities)
    /\ em.entities[entity.id + 1].generation = entity.generation

EntityMap_destroy_entity(em, entity) ==
    IF EntityMap_entity_exists(em, entity)
    THEN [map |-> [entities |-> [em.entities EXCEPT ![entity.id + 1] =
                                    [generation |-> SetLowBit(@.generation),
                                     types |-> {}]],
                   next_free_entity |-> IF entity.id < em.next_free_entity
                                        THEN entity.id
                                        ELSE em.next_free_entity],
          result |-> Some(em.entities[entity.id + 1].types)]
    ELSE [map |-> em, result |-> None]

EntityMap_add_component(em, entity, component_type) ==
    [em EXCEPT !.entities[entity.id + 1].types = @ \cup {component_type}]

EntityMap_remove_component(em, entity, component_type) ==
    [em EXCEPT !.entities[entity.id + 1].types = @ \ {component_type}]

\* EntityMap::iter: one Option<Entity> per slot, Some for an even generation
EntityMap_iter(em) ==
    [i \in 1..Len(em.entities) |->
        IF em.entities[i].generation % 2 = 0
        THEN Some(Entity(i - 1, em.entities[i].generation))
        ELSE None]

\* ------------------------------------------------- component_container.rs
ComponentSlot(generation, component, last_modified_tick) ==
    [generation |-> generation, component |-> component,
     last_modified_tick |-> last_modified_tick]

ComponentContainer_new == << >>

\* an insert that stamps a new row and keeps the tick of a row it replaces
insert_keeps_tick(container, tick, entity, component) ==
    LET grown == IF entity.id >= Len(container)
                 THEN container \o [i \in 1..(entity.id + 1 - Len(container)) |-> None]
                 ELSE container
        old == grown[entity.id + 1]
    IN  [grown EXCEPT ![entity.id + 1] =
            Some(ComponentSlot(entity.generation, component,
                               IF IsSome(old) THEN old[1].last_modified_tick ELSE tick))]

insert(container, tick, entity, component) ==
    LET grown == IF entity.id >= Len(container)
                 THEN container \o [i \in 1..(entity.id + 1 - Len(container)) |-> None]
                 ELSE container
    IN  [grown EXCEPT ![entity.id + 1] =
            Some(ComponentSlot(entity.generation, component, tick))]

SlotMatches(container, entity) ==
    /\ entity.id < Len(container)
    /\ IsSome(container[entity.id + 1])
    /\ container[entity.id + 1][1].generation = entity.generation

\* a remove that clones the component and leaves the row
remove_leaves_row(container, entity) ==
    IF SlotMatches(container, entity)
    THEN [container |-> container,
          result |-> Some(container[entity.id + 1][1].component)]
    ELSE [container |-> container, result |-> None]

remove(container, entity) ==
    IF SlotMatches(container, entity)
    THEN [container |-> [container EXCEPT ![entity.id + 1] = None],
          result |-> Some(container[entity.id + 1][1].component)]
    ELSE [container |-> container, result |-> None]

\* First pass of get_many_mut: mark each matching slot, stop at the first
\* handle that is out of range or does not match.
RECURSIVE mark_pass(_, _, _)
mark_pass(container, es, i) ==
    IF i >= Len(es)
    THEN [components |-> container, i |-> i]
    ELSE LET entity == es[i + 1] IN
         IF entity.id >= Len(container)
         THEN [components |-> container, i |-> i]
         ELSE IF ~SlotMatches(container, entity)
         THEN [components |-> container, i |-> i]
         ELSE mark_pass([container EXCEPT ![entity.id + 1][1].generation =
                                              SetLowBit(@)], es, i + 1)

\* Second pass: clear the low bit of the slots of entities[..i]
RECURSIVE unmark_pass(_, _, _, _)
unmark_pass(container, es, k, i) ==
    IF k >= i
    THEN container
    ELSE unmark_pass([container EXCEPT ![es[k + 1].id + 1][1].generation =
                                          ClearLowBit(@)], es, k + 1, i)

\* A write view is the slot it points at (components_ptr.add(entity.id)).
get_many_mut(container, es) ==
    LET marked == mark_pass(container, es, 0)
        cleared == unmark_pass(marked.components, es, 0, marked.i)
    IN  IF marked.i # Len(es)
        THEN [container |-> cleared, result |-> None]
        ELSE [container |-> cleared,
              result |-> Some([k \in 1..Len(es) |-> es[k].id])]

\* -------------------------------------------------------------- query.rs
\* Option<&mut ComponentContainer<C>>::get_many_mut: None when the App has
\* no table of the type.
Query_get_many_mut(comps, c, es) ==
    IF c \notin DOMAIN comps
    THEN [components |-> comps, result |-> None]
    ELSE LET r == get_many_mut(comps[c], es)
         IN  [components |-> [comps EXCEPT ![c] = r.container],
              result |-> r.result]

\* Ref::get_modified and RefMut::get_modified
get_modified(last_run_tick, last_modified_tick) ==
    last_run_tick < last_modified_tick

\* a deref_mut that forgets the stamp
deref_mut_unstamped(slot, tick) == slot

\* DerefMut for RefMut: the slot is stamped with the view's current_tick
deref_mut(slot, tick) == [slot EXCEPT !.last_modified_tick = tick]

\* a silently_modify that stamps as deref_mut does
silently_modify_stamped(slot, tick) == [slot EXCEPT !.last_modified_tick = tick]

\* RefMut::silently_modify: the component is handed out, the slot's tick
\* is not written
silently_modify(slot, tick) ==
    slot

\* Query::iter and Query::iter_mut: the registry's slots zipped with the
\* table's slots; an item where the entity is alive and the slot occupied.
Query_iter(em, comps, c) ==
    IF c \notin DOMAIN comps
    THEN {}
    ELSE {i \in 1..Len(em.entities) :
            /\ i <= Len(comps[c])
            /\ IsSome(EntityMap_iter(em)[i])
            /\ IsSome(comps[c][i])}

\* ComponentContainer::get and get_mut: the slot of the entity's id, if
\* it is occupied by a row of the entity's generation
get(container, entity) ==
    IF SlotMatches(container, entity) THEN container[entity.id + 1] ELSE None

\* Query::get of a Query<Ref<C>> (Query::get_mut of a Query<RefMut<C>>):
\* None when the App has no table of the type
Query_get(comps, c, entity) ==
    IF c \notin DOMAIN comps THEN None ELSE get(comps[c], entity)

\* Entities::iter: the alive handles
Entities_iter(em) ==
    {Unwrap(EntityMap_iter(em)[i]) :
        i \in {j \in 1..Len(em.entities) : IsSome(EntityMap_iter(em)[j])}}

\* for (_, a) in q.iter_mut() { a.value += 1 } on a Query<RefMut<C>>
body_mutate(em, comps, c, tick) ==
    IF c \notin DOMAIN comps
    THEN comps
    ELSE [comps EXCEPT ![c] =
            [i \in 1..Len(@) |->
                IF i \in Query_iter(em, comps, c)
                THEN Some(deref_mut([@[i][1] EXCEPT !.component = @ + 1], tick))
                ELSE @[i]]]

\* for (_, a) in q.iter_mut() { a.silently_modify().value += 1 } on a
\* Query<RefMut<C>>
body_silent(em, comps, c, tick) ==
    IF c \notin DOMAIN comps
    THEN comps
    ELSE [comps EXCEPT ![c] =
            [i \in 1..Len(@) |->
                IF i \in Query_iter(em, comps, c)
                THEN Some([silently_modify(@[i][1], tick) EXCEPT !.component = @ + 1])
                ELSE @[i]]]

\* for (e, a) in q.iter() { (e, a.get_modified(), a.value) } on a Query<Ref<C>>
body_observe(em, comps, c, last_run_tick) ==
    {[entity |-> Unwrap(EntityMap_iter(em)[i]),
      modified |-> get_modified(last_run_tick, comps[c][i][1].last_modified_tick),
      value |-> comps[c][i][1].component] : i \in Query_iter(em, comps, c)}

\* the handles a body reaches through its query
body_entities(em, comps, c) ==
    {Unwrap(EntityMap_iter(em)[i]) : i \in Query_iter(em, comps, c)}

\* ---------------------------------------- query.rs: query shapes (Q-types)
\* A query parameter Q: Ref<C>, RefMut<C>, Option<Q'> or a tuple of
\* Q-types.  Its container is the table of C, or made of its parts'.
Shape_Ref(c) == [kind |-> "Ref", c |-> c, parts |-> << >>]
Shape_RefMut(c) == [kind |-> "RefMut", c |-> c, parts |-> << >>]
Shape_Option(q) == [kind |-> "Option", c |-> "", parts |-> << q >>]
Shape_Tuple(q1, q2) == [kind |-> "Tuple", c |-> "", parts |-> << q1, q2 >>]

\* a Ref or RefMut view: the slot of the table it points at
View(c, id) == [type |-> c, id |-> id]

\* ComponentContainerTrait::get and get_mut of the container of q
RECURSIVE Trait_get_mut(_, _, _)
Trait_get_mut(comps, q, entity) ==
    IF q.kind \in {"Ref", "RefMut"}
    THEN IF IsSome(Query_get(comps, q.c, entity))
         THEN Some(View(q.c, entity.id))
         ELSE None
    ELSE IF q.kind = "Option"
    THEN Some(Trait_get_mut(comps, q.parts[1], entity))
    ELSE LET ps == [k \in 1..Len(q.parts) |-> Trait_get_mut(comps, q.parts[k], entity)]
         IN  IF \E k \in 1..Len(ps) : ps[k] = None
             THEN None
             ELSE Some([k \in 1..Len(ps) |-> Unwrap(ps[k])])

\* ComponentContainerTrait::iter and iter_mut of the container of q: one
\* Option<view> per slot, for as many slots as the container has.  An
\* absent table has none; a tuple ends with the first part that ends.
RECURSIVE Trait_iter(_, _)
Trait_iter(comps, q) ==
    IF q.kind \in {"Ref", "RefMut"}
    THEN IF q.c \notin DOMAIN comps
         THEN << >>
         ELSE [i \in 1..Len(comps[q.c]) |->
                 IF IsSome(comps[q.c][i]) THEN Some(View(q.c, i - 1)) ELSE None]
    ELSE IF q.kind = "Option"
    THEN LET inner == Trait_iter(comps, q.parts[1])
         IN  [i \in 1..Len(inner) |-> Some(inner[i])]
    ELSE LET ps == [k \in 1..Len(q.parts) |-> Trait_iter(comps, q.parts[k])]
             len == CHOOSE n \in {Len(ps[k]) : k \in 1..Len(ps)} :
                        \A k \in 1..Len(ps) : n <= Len(ps[k])
         IN  [i \in 1..len |->
                 IF \E k \in 1..Len(ps) : ps[k][i] = None
                 THEN None
                 ELSE Some([k \in 1..Len(ps) |-> Unwrap(ps[k][i])])]

\* Query::iter and iter_mut of a Query<Q>: the registry's iterator zipped
\* with the container's, the rows where both are Some
Query_iter_shape(em, comps, q) ==
    LET es == EntityMap_iter(em)
        ps == Trait_iter(comps, q)
        len == IF Len(es) <= Len(ps) THEN Len(es) ELSE Len(ps)
        rows == [i \in 1..len |-> << es[i], ps[i] >>]
        yielded == SelectSeq(rows, LAMBDA row : IsSome(row[1]) /\ IsSome(row[2]))
    IN  [i \in 1..Len(yielded) |-> << Unwrap(yielded[i][1]), Unwrap(yielded[i][2]) >>]

\* ComponentContainerTrait::get_many_mut of the container of q.  A Ref
\* part checks that every get is Some; a RefMut part is the table's
\* get_many_mut; an Option part wraps what its inner part returns for the
\* whole array; a tuple asks its parts in order and stops at the first None.
RECURSIVE Trait_get_many_mut(_, _, _)
RECURSIVE Tuple_get_many_mut(_, _, _, _, _)
Tuple_get_many_mut(comps, parts, k, es, acc) ==
    IF k > Len(parts)
    THEN [components |-> comps,
          result |-> Some([i \in 1..Len(es) |-> [p \in 1..Len(parts) |-> acc[p][i]]])]
    ELSE LET r == Trait_get_many_mut(comps, parts[k], es)
         IN  IF r.result = None
             THEN [components |-> r.components, result |-> None]
             ELSE Tuple_get_many_mut(r.components, parts, k + 1, es,
                                     Append(acc, Unwrap(r.result)))

Trait_get_many_mut(comps, q, es) ==
    IF q.kind = "Ref"
    THEN IF q.c \notin DOMAIN comps
         THEN [components |-> comps, result |-> None]
         ELSE IF \A i \in 1..Len(es) : IsSome(get(comps[q.c], es[i]))
         THEN [components |-> comps,
               result |-> Some([i \in 1..Len(es) |-> View(q.c, es[i].id)])]
         ELSE [components |-> comps, result |-> None]
    ELSE IF q.kind = "RefMut"
    THEN LET r == Query_get_many_mut(comps, q.c, es)
         IN  [components |-> r.components,
              result |-> IF r.result = None
                         THEN None
                         ELSE Some([i \in 1..Len(es) |->
                                       View(q.c, Unwrap(r.result)[i])])]
    ELSE IF q.kind = "Option"
    THEN LET r == Trait_get_many_mut(comps, q.parts[1], es)
         IN  [components |-> r.components,
              result |-> Some([i \in 1..Len(es) |->
                                 IF r.result = None
                                 THEN None
                                 ELSE Some(Unwrap(r.result)[i])])]
    ELSE Tuple_get_many_mut(comps, q.parts, 1, es, << >>)

\* ------------------------------------------------------------- system.rs
BorrowTypes == {"Immutable", "Mutable"}

\* Borrow without its name, which is used in panic messages only; kind says
\* whether get_resource_types or get_component_types reports it.
Borrow(kind, id, borrow_type) ==
    [kind |-> kind, id |-> id, borrow_type |-> borrow_type]

\* a wrapper made with the tick after the first
SystemFunctionWrapper_tick_one(params, body) ==
    [kind |-> "fn", params |-> params, body |-> body, last_run_tick |-> 1,
     system_groups |-> << >>]

\* IntoSystem::into_system of a function: params are the borrows its
\* parameters lock, in parameter order; body names what the function does.
SystemFunctionWrapper(params, body) ==
    [kind |-> "fn", params |-> params, body |-> body, last_run_tick |-> 0,
     system_groups |-> << >>]

\* IntoSystem::into_system of a SystemSet: the set itself
SystemSetAsSystem(groups) ==
    [kind |-> "set", params |-> << >>, body |-> "", last_run_tick |-> 0,
     system_groups |-> groups]

\* --------------------------------------------------------- system_set.rs
SystemGroup(resources, comps, systems) ==
    [resources |-> resources, components |-> comps, systems |-> systems]

GroupMap(group, kind) ==
    IF kind = "resource" THEN group.resources ELSE group.components

\* an or_insert that keeps the first borrow as it is
MergeBorrows_first(a, b) ==
    [x \in DOMAIN a \cup DOMAIN b |-> IF x \in DOMAIN a THEN a[x] ELSE b[x]]

\* a.entry(id).or_insert(borrow), made Mutable when the new borrow is
MergeBorrows(a, b) ==
    [x \in DOMAIN a \cup DOMAIN b |->
        IF x \in DOMAIN a
        THEN IF a[x] = "Immutable" /\ x \in DOMAIN b /\ b[x] = "Mutable"
             THEN "Mutable"
             ELSE a[x]
        ELSE b[x]]

\* a fold that keeps the borrows of the first wave only
fold_groups_first_wave(groups, k, kind, a) ==
    IF groups = << >> THEN a ELSE GroupMap(groups[1], kind)

RECURSIVE fold_groups(_, _, _, _)
fold_groups(groups, k, kind, a) ==
    IF k > Len(groups)
    THEN a
    ELSE fold_groups(groups, k + 1, kind, MergeBorrows(a, GroupMap(groups[k], kind)))

\* HashMap::into_values: every key once, in an order that does not matter
RECURSIVE into_values(_, _)
into_values(m, kind) ==
    IF DOMAIN m = {}
    THEN << >>
    ELSE LET id == CHOOSE x \in DOMAIN m : TRUE
         IN  << Borrow(kind, id, m[id]) >>
                \o into_values([x \in DOMAIN m \ {id} |-> m[x]], kind)

\* System::get_resource_types / get_component_types
get_types(system, kind) ==
    IF system.kind = "fn"
    THEN SelectSeq(system.params, LAMBDA b : b.kind = kind)
    ELSE into_values(fold_groups(system.system_groups, 1, kind, << >>), kind)

\* One loop of check_system: seen.insert(id, borrow) and the match on the
\* borrow it replaced.
\* a check without the arm (_, Mutable): only a borrow after a mutable one
\* is refused
RECURSIVE check_borrows_old_mutable(_, _, _)
check_borrows_old_mutable(borrows, k, seen) ==
    IF k > Len(borrows)
    THEN [panic |-> FALSE, seen |-> seen, name |-> ""]
    ELSE LET b == borrows[k] IN
         IF b.id \in DOMAIN seen /\ seen[b.id] = "Mutable"
         THEN [panic |-> TRUE, seen |-> seen, name |-> b.id]
         ELSE check_borrows_old_mutable(borrows, k + 1,
                                        MapInsert(seen, b.id, b.borrow_type))

\* a check that refuses every type it has seen
RECURSIVE check_borrows_any_repeat(_, _, _)
check_borrows_any_repeat(borrows, k, seen) ==
    IF k > Len(borrows)
    THEN [panic |-> FALSE, seen |-> seen, name |-> ""]
    ELSE LET b == borrows[k] IN
         IF b.id \in DOMAIN seen
         THEN [panic |-> TRUE, seen |-> seen, name |-> b.id]
         ELSE check_borrows_any_repeat(borrows, k + 1,
                                       MapInsert(seen, b.id, b.borrow_type))

\* name is the type the panic message names
RECURSIVE check_borrows(_, _, _)
check_borrows(borrows, k, seen) ==
    IF k > Len(borrows)
    THEN [panic |-> FALSE, seen |-> seen, name |-> ""]
    ELSE LET b == borrows[k] IN
         IF /\ b.id \in DOMAIN seen
            /\ (seen[b.id] = "Mutable" \/ b.borrow_type = "Mutable")
         THEN [panic |-> TRUE, seen |-> seen, name |-> b.id]
         ELSE check_borrows(borrows, k + 1, MapInsert(seen, b.id, b.borrow_type))

\* the resource loop runs first; a panic in it ends check_system
check_system(system) ==
    LET r == check_borrows(get_types(system, "resource"), 1, << >>)
        c == check_borrows(get_types(system, "component"), 1, << >>)
    IN  [panic |-> r.panic \/ c.panic, resources |-> r.seen, components |-> c.seen,
         kind |-> IF r.panic THEN "resource" ELSE IF c.panic THEN "component" ELSE "",
         name |-> IF r.panic THEN r.name ELSE c.name]

\* a test that lets a reader in with a writer
BorrowsConflict_writers(group_borrows, borrows) ==
    \E id \in DOMAIN group_borrows :
        /\ id \in DOMAIN borrows
        /\ group_borrows[id] = "Mutable" /\ borrows[id] = "Mutable"

\* The closure of register_system's two `any` tests: the group borrows a
\* type the system borrows too, and not both immutably.
BorrowsConflict(group_borrows, borrows) ==
    \E id \in DOMAIN group_borrows :
        /\ id \in DOMAIN borrows
        /\ ~(group_borrows[id] = "Immutable" /\ borrows[id] = "Immutable")

\* HashMap::extend: the new entries replace the old ones
Extend(m, n) ==
    [x \in DOMAIN m \cup DOMAIN n |-> IF x \in DOMAIN n THEN n[x] ELSE m[x]]

\* a placement that gives every system a wave of its own
place_system_append(groups, k, system, resources, comps) ==
    Append(groups, SystemGroup(resources, comps, << system >>))

\* The `for` loop of register_system over the groups, with its `continue`
\* on a conflict and its return after the first group that takes the
\* system, and the push of a new group after the loop.
RECURSIVE place_system(_, _, _, _, _)
place_system(groups, k, system, resources, comps) ==
    IF k > Len(groups)
    THEN Append(groups, SystemGroup(resources, comps, << system >>))
    ELSE IF \/ BorrowsConflict(groups[k].resources, resources)
            \/ BorrowsConflict(groups[k].components, comps)
    THEN place_system(groups, k + 1, system, resources, comps)
    ELSE [groups EXCEPT ![k] =
            SystemGroup(Extend(@.resources, resources),
                        Extend(@.components, comps),
                        Append(@.systems, system))]

\* register_system on a set that check_system lets through
register_system(groups, system) ==
    LET checked == check_system(system)
    IN  place_system(groups, 1, system, checked.resources, checked.components)

\* ------------------------------------------- locks (parking_lot::RwLock)
RwLock_new == [readers |-> 0, writer |-> FALSE]

try_read(l) ==
    IF l.writer THEN None ELSE Some([l EXCEPT !.readers = @ + 1])

try_write(l) ==
    IF l.writer \/ l.readers > 0 THEN None ELSE Some([l EXCEPT !.writer = TRUE])

\* QueryParameter::lock for Ref / RefMut and SystemParameter::lock for
\* Res / ResMut.  A missing table gives no guard (`?`), a missing resource
\* panics in the first expect, a lock that is not available in the second.
\* The guard of a resource is mapped by downcast_ref / downcast_mut to
\* ResourceContainer<R>, while App::add_resource has boxed the R itself:
\* the unwrap of the downcast panics and the guard is dropped.
lock(ls, b, comps, res) ==
    LET key == << b.kind, b.id >>
        r == IF b.borrow_type = "Immutable"
             THEN try_read(ls[key])
             ELSE try_write(ls[key])
    IN  IF b.kind = "component" /\ b.id \notin DOMAIN comps
        THEN [panic |-> "", locks |-> ls]
        ELSE IF b.kind = "resource" /\ b.id \notin DOMAIN res
        THEN [panic |-> "resource", locks |-> ls]
        ELSE IF ~IsSome(r)
        THEN [panic |-> "lock", locks |-> ls]
        ELSE IF b.kind = "resource"
        THEN [panic |-> "downcast", locks |-> ls]
        ELSE [panic |-> "", locks |-> [ls EXCEPT ![key] = Unwrap(r)]]

\* guards that outlive the function
unlock_none(ls, params, k, comps) == ls

\* the guard of a borrow is dropped, if there is one
unlock(ls, b, comps) ==
    LET key == << b.kind, b.id >>
    IN  IF b.kind = "component" /\ b.id \notin DOMAIN comps
        THEN ls
        ELSE IF b.borrow_type = "Immutable"
        THEN [ls EXCEPT ![key].readers = @ - 1]
        ELSE [ls EXCEPT ![key].writer = FALSE]

RECURSIVE unlock_all(_, _, _, _)
unlock_all(ls, params, k, comps) ==
    IF k > Len(params)
    THEN ls
    ELSE unlock_all(unlock(ls, params[k], comps), params, k + 1, comps)

\* ------------------------------------------------- a run of a system
\* A task is one system of the wave that is running, on its own thread
\* (par_iter_mut).  A function system locks its parameters one by one
\* (pc = "lock", locked of them done), runs the function (pc = "run") and
\* returns, dropping every guard (pc = "done").  A nested set (pc = "set")
\* runs its own waves, wave naming the current one and tasks its systems.
Task(pc, locked, wave, tasks) ==
    [pc |-> pc, locked |-> locked, wave |-> wave, tasks |-> tasks]

FunctionTask(system) ==
    Task(IF Len(system.params) = 0 THEN "run" ELSE "lock", 0, 0, << >>)

WaveTasks(group) ==
    [i \in 1..Len(group.systems) |-> FunctionTask(group.systems[i])]

SystemTask(system) ==
    IF system.kind = "fn"
    THEN FunctionTask(system)
    ELSE IF Len(system.system_groups) = 0
    THEN Task("done", 0, 0, << >>)
    ELSE Task("set", 0, 1, WaveTasks(system.system_groups[1]))

\* The function of a system, called with its parameters constructed from
\* the guards: what it does to the tables, what it sees, what it touches.
run_body(system, em, comps, tick) ==
    IF system.body = "mutate"
    THEN [components |-> body_mutate(em, comps, system.params[1].id, tick),
          seen |-> {},
          touched |-> body_entities(em, comps, system.params[1].id)]
    ELSE IF system.body = "silent"
    THEN [components |-> body_silent(em, comps, system.params[1].id, tick),
          seen |-> {},
          touched |-> {}]
    ELSE IF system.body = "observe"
    THEN [components |-> comps,
          seen |-> body_observe(em, comps, system.params[1].id, system.last_run_tick),
          touched |-> {}]
    ELSE [components |-> comps, seen |-> {}, touched |-> {}]

\* the function of the system panics, after it has sent its commands
Panics(body) == body = "queue_panic"

\* One step of system_function_impl's run: the next parameter's lock, or
\* the call of the function, after which the guards are dropped and
\* SystemFunctionWrapper::run sets last_run_tick.  A function that panics
\* unwinds through run: the guards are dropped, last_run_tick is not set.
function_step(system, task, ls, comps, res, em, tick) ==
    IF task.pc = "lock"
    THEN LET r == lock(ls, system.params[task.locked + 1], comps, res) IN
         [system |-> system,
          locks |-> IF r.panic \in {"resource", "downcast"}
                    THEN unlock_all(r.locks, SubSeq(system.params, 1, task.locked),
                                    1, comps)
                    ELSE r.locks,
          panic |-> r.panic,
          components |-> comps, ran |-> FALSE, seen |-> {}, touched |-> {},
          task |-> IF r.panic # ""
                   THEN [task EXCEPT !.pc = "panicked"]
                   ELSE [task EXCEPT !.locked = @ + 1,
                                     !.pc = IF task.locked + 1 = Len(system.params)
                                            THEN "run" ELSE "lock"]]
    ELSE IF Panics(system.body)
    THEN [system |-> system,
          locks |-> unlock_all(ls, system.params, 1, comps), panic |-> "user",
          components |-> comps, ran |-> FALSE, seen |-> {}, touched |-> {},
          task |-> [task EXCEPT !.pc = "panicked", !.locked = 0]]
    ELSE LET b == run_body(system, em, comps, tick) IN
         [system |-> [system EXCEPT !.last_run_tick = tick],
          locks |-> unlock_all(ls, system.params, 1, comps), panic |-> "",
          components |-> b.components, ran |-> TRUE, seen |-> b.seen,
          touched |-> b.touched,
          task |-> [task EXCEPT !.pc = "done", !.locked = 0]]

\* system_function_impl's run from the first lock to the return
RECURSIVE run_function(_, _, _, _, _, _, _)
run_function(system, task, ls, comps, res, em, tick) ==
    LET r == function_step(system, task, ls, comps, res, em, tick) IN
    IF r.task.pc \in {"done", "panicked"}
    THEN r
    ELSE run_function(r.system, r.task, r.locks, r.components, res, em, tick)

\* the body's += 1 stays within the values of the model
BodyBounded(system, em, comps) ==
    system.body \in {"mutate", "silent"} =>
        \A i \in Query_iter(em, comps, system.params[1].id) :
            comps[system.params[1].id][i][1].component < MaxValue

\* a join that returns with the first system that has
AnyDone(tasks) == \E i \in 1..Len(tasks) : tasks[i].pc = "done"

\* par_iter_mut().for_each has returned: every system of the wave has
AllDone(tasks) == \A i \in 1..Len(tasks) : tasks[i].pc = "done"

RECURSIVE CountSystems(_, _)
CountSystems(groups, k) ==
    IF k > Len(groups)
    THEN 0
    ELSE LET g == groups[k]
             own == [i \in 1..Len(g.systems) |->
                        IF g.systems[i].kind = "fn" THEN 1
                        ELSE CountSystems(g.systems[i].system_groups, 1)]
             Sum[i \in 0..Len(own)] == IF i = 0 THEN 0 ELSE own[i] + Sum[i - 1]
         IN  Sum[Len(own)] + CountSystems(groups, k + 1)

\* the sets registered as systems of the set
NestedSets(groups) ==
    {<< k, i >> \in (1..Len(groups)) \X (1..MaxSystems) :
        i <= Len(groups[k].systems) /\ groups[k].systems[i].kind = "set"}

\* ------------------------------------------------------------ commands.rs
\* A command in the channel of a run: the closure a system has sent, with
\* who sent it (the system's place in the set), as which of its sends, and
\* in which wave.
Command(producer, seq, wave, name) ==
    [producer |-> producer, seq |-> seq, wave |-> wave, name |-> name]

\* The functions with a Commands parameter.  "queue_s4" shares a cell
\* between its first and its last closure:
\*   commands.schedule(|app| *first = Some(app.create_entity()));
\*   commands.create_entity(());
\*   commands.schedule(|app| app.destroy_entity(first.unwrap()));
\* "queue_create" calls commands.create_entity(()) twice.  "queue_add" and
\* "queue_remove" hold the first handle the App has returned, Target:
\*   commands.add_components(target, (A(1),));
\*   commands.remove_components::<(A,)>(target);
\* and "queue_spawn" calls commands.create_entity((A(1),)).  "queue_panic"
\* calls commands.create_entity(()) and panics.
CommandsOf(body) ==
    CASE body = "queue_s4" -> << "create_first", "create_entity", "destroy_first" >>
      [] body = "queue_create" -> << "create_entity", "create_entity" >>
      [] body = "queue_add" -> << "add_components" >>
      [] body = "queue_remove" -> << "remove_components" >>
      [] body = "queue_spawn" -> << "create_entity_A" >>
      [] body = "queue_panic" -> << "create_entity" >>
      [] OTHER -> << >>

\* the sends of the producer that are in the channel
SentBy(q, producer) == Cardinality({i \in 1..Len(q) : q[i].producer = producer})

\* The App a command is applied to, with the history of its handles and
\* the commands applied so far, each with the handle it created or destroyed.
AppState(em, comps, tick, ret, lat, des, kil, att) ==
    [entities |-> em, components |-> comps, current_tick |-> tick,
     returned |-> ret, latest |-> lat, destroyed |-> des, killed |-> kil,
     attached |-> att, applied |-> << >>]

\* the handle held by "queue_add" and "queue_remove"
Target == Entity(0, NEW_GENERATION)

\* an add that advances the App's tick
Bundle_add_next_tick(app, entity, c, component) ==
    [app EXCEPT !.current_tick = @ + 1]

\* App::add_component, called by a bundle's add
Bundle_add(app, entity, c, component) ==
    IF ~EntityMap_entity_exists(app.entities, entity)
    THEN app
    ELSE [app EXCEPT
             !.components =
                 MapInsert(app.components, c,
                     insert(IF c \in DOMAIN app.components THEN app.components[c]
                            ELSE ComponentContainer_new,
                            app.current_tick, entity, component)),
             !.entities = EntityMap_add_component(@, entity, c),
             !.attached = MapInsert(@, << entity, c >>, component)]

\* App::remove_component, called by a bundle's remove, which drops what
\* it returns
Bundle_remove(app, entity, c) ==
    IF ~EntityMap_entity_exists(app.entities, entity)
    THEN app
    ELSE [app EXCEPT
             !.entities = EntityMap_remove_component(@, entity, c),
             !.components =
                 IF c \in DOMAIN app.components
                 THEN [app.components EXCEPT
                          ![c] = remove(app.components[c], entity).container]
                 ELSE app.components,
             !.attached = Detach(@, {<< entity, c >>})]

Applied(command, entity) ==
    [producer |-> command.producer, seq |-> command.seq, wave |-> command.wave,
     name |-> command.name, entity |-> entity]

\* the cell of the producer: the handle its "create_first" has created
FirstCreated(applied, producer) ==
    LET firsts == {i \in 1..Len(applied) :
                      applied[i].producer = producer
                          /\ applied[i].name = "create_first"}
    IN  IF firsts = {} THEN None ELSE applied[CHOOSE i \in firsts : TRUE].entity

\* command(self): the closure called with the App
Apply(app, command) ==
    IF command.name \in {"create_first", "create_entity", "create_entity_A"}
    THEN LET r == EntityMap_create_entity(app.entities)
             created ==
                 [app EXCEPT !.entities = r.map,
                             !.returned = @ \cup {r.entity},
                             !.latest = MapInsert(@, r.entity.id, r.entity),
                             !.destroyed = @ \ {r.entity},
                             !.applied = Append(@, Applied(command, Some(r.entity)))]
         IN  IF command.name = "create_entity_A"
             THEN Bundle_add(created, r.entity, "A", 1)
             ELSE created
    ELSE IF command.name = "add_components"
    THEN [Bundle_add(app, Target, "A", 1) EXCEPT
             !.applied = Append(@, Applied(command, Some(Target)))]
    ELSE IF command.name = "remove_components"
    THEN [Bundle_remove(app, Target, "A") EXCEPT
             !.applied = Append(@, Applied(command, Some(Target)))]
    ELSE LET first == FirstCreated(app.applied, command.producer) IN
         IF first = None
         THEN [app EXCEPT !.applied = Append(@, Applied(command, None))]
         ELSE LET entity == Unwrap(first)
                  r == EntityMap_destroy_entity(app.entities, entity)
              IN  [app EXCEPT
                      !.entities = r.map,
                      !.components =
                          IF IsSome(r.result)
                          THEN [c \in DOMAIN app.components |->
                                   IF c \in Unwrap(r.result)
                                   THEN remove(app.components[c], entity).container
                                   ELSE app.components[c]]
                          ELSE app.components,
                      !.destroyed = @ \cup {entity},
                      !.killed = IF EntityMap_entity_exists(app.entities, entity)
                                 THEN @ \cup {entity} ELSE @,
                      !.applied = Append(@, Applied(command, first))]

\* a receiver that stops one command short of the end of the channel
RECURSIVE Drain_short(_, _)
Drain_short(app, q) ==
    IF Len(q) <= 1 THEN app ELSE Drain_short(Apply(app, Head(q)), Tail(q))

\* for command in command_receiver { command(self); }
RECURSIVE Drain(_, _)
Drain(app, q) ==
    IF q = << >> THEN app ELSE Drain(Apply(app, Head(q)), Tail(q))

\* the registry a drain leaves stays within the slots and generations of
\* the model
DrainBounded(app) ==
    /\ Len(app.entities.entities) <= MaxCommandEntities
    /\ \A i \in 1..Len(app.entities.entities) :
          app.entities.entities[i].generation <= MaxGeneration + 1

\* ------------------------------------------------------------------ state
VARIABLES
    entities,        \* App.entities: the EntityMap
    components,      \* App.components: type -> table
    resources,       \* App.resources: type -> resource
    current_tick,    \* App.current_tick
    system_groups,   \* SystemSet.system_groups of the set handed to App::run
    nested_groups,   \* system_groups of a second set, to be registered in the first
    locks,           \* the state of the RwLock of every table and resource
    run,             \* the position of a run of the set: wave and tasks
    lock_failed,     \* a try_read or try_write has returned None
    queue,           \* the commands in the channel of the run
    sent,            \* history: the commands sent during the latest run
    applied,         \* history: the commands applied at the end of the latest run
    returned,        \* history: every handle create_entity has returned
    latest,          \* history: id -> the handle last returned for the id
    destroyed,       \* history: handles destroy_entity was called on since returned
    killed,          \* history: handles destroy_entity was called on while they existed
    attached,        \* history: <<handle, type>> -> the value last added and not removed since
    provided,        \* history: resource type -> the value last added and not removed since
    call,            \* history: the last entity or component operation and its result
    obs,             \* history: what the last observing function saw
    since,           \* history: system -> what was inserted or mutated since it ran
    deref_tick,      \* history: handle -> tick of the last deref_mut of its component
    scenario         \* history: the number of steps of scenario S1 done, or -1

appVars == <<entities, components, resources, current_tick>>
cmdVars == <<queue, sent, applied>>
schedVars == <<system_groups, nested_groups, locks, run, lock_failed, cmdVars>>
handleVars == <<returned, latest, destroyed, killed>>
histVars == <<handleVars, attached, provided>>
obsVars == <<obs, since, deref_tick>>
vars == <<appVars, schedVars, histVars, call, obsVars, scenario>>

Call(op, es, c, result, aux) ==
    [op |-> op, entities |-> es, type |-> c, result |-> result, aux |-> aux]

ResourceTypes == {"R"}

LockKeys ==
    {<< "component", c >> : c \in ComponentTypes}
        \cup {<< "resource", r >> : r \in ResourceTypes}

Idle == [phase |-> "idle", wave |-> 0, tasks |-> << >>]

Init ==
    /\ entities = EntityMap_new
    /\ components = << >>
    /\ resources = << >>
    /\ current_tick = 0
    /\ system_groups = << >>
    /\ nested_groups = << >>
    /\ locks = [key \in LockKeys |-> RwLock_new]
    /\ run = Idle
    /\ lock_failed = FALSE
    /\ queue = << >>
    /\ sent = << >>
    /\ applied = << >>
    /\ returned = {}
    /\ latest = << >>
    /\ destroyed = {}
    /\ killed = {}
    /\ attached = << >>
    /\ provided = << >>
    /\ call = Call("new", << >>, "", None, 0)
    /\ obs = {}
    /\ since = << >>
    /\ deref_tick = << >>
    /\ scenario = 0

\* Step k of scenario S1 has been done if the k - 1 before it were, and
\* nothing else.
Scenario(k) == IF k > 0 /\ scenario = k - 1 THEN k ELSE -1

\* the components of the handles in hs have been inserted or mutated
Touch(s, hs, how) == [k \in DOMAIN s |-> s[k] \cup {<< how, h >> : h \in hs}]

\* ----------------------------------------------------------------- app.rs
App_entity_exists(entity) == EntityMap_entity_exists(entities, entity)

CreateEntity ==
    LET r == EntityMap_create_entity(entities)
        id == entities.next_free_entity
        pushed == ~(id < Len(entities.entities))
    IN  /\ run.phase = "idle"
        /\ r.entity.generation <= MaxGeneration
        /\ Len(r.map.entities) <= MaxEntities
        /\ entities' = r.map
        /\ returned' = returned \cup {r.entity}
        /\ latest' = MapInsert(latest, r.entity.id, r.entity)
        /\ destroyed' = destroyed \ {r.entity}
        /\ call' = Call("create_entity", << r.entity >>, "",
                        IF pushed THEN None
                        ELSE Some(entities.entities[id + 1].generation), 0)
        /\ scenario' = Scenario(1)
        /\ UNCHANGED <<components, resources, current_tick, killed, attached,
                       provided, schedVars, obsVars>>

\* App::destroy_entity: the registry's destroy, then the rows of the
\* attached types are removed from their tables.
App_destroy_components(comps, types, entity) ==
    [c \in DOMAIN comps |->
        IF c \in types THEN remove(comps[c], entity).container ELSE comps[c]]

\* app.create_entity() in a build with or without overflow checks, the
\* generations words of WordBits bits; the caller catches the panic
CreateEntityWord(overflow_checks) ==
    LET r == EntityMap_create_entity_word(entities, overflow_checks) IN
    /\ run.phase = "idle"
    /\ Len(r.map.entities) <= MaxRunEntities + 1
    /\ entities' = r.map
    /\ returned' = IF r.panic THEN returned ELSE returned \cup {r.entity}
    /\ latest' = IF r.panic THEN latest ELSE MapInsert(latest, r.entity.id, r.entity)
    /\ destroyed' = IF r.panic THEN destroyed ELSE destroyed \ {r.entity}
    /\ call' = IF r.panic
               THEN Call("create_entity", << >>, "panic", None, 0)
               ELSE Call("create_entity", << r.entity >>, "", None, 0)
    /\ scenario' = Scenario(0)
    /\ UNCHANGED <<components, resources, current_tick, killed, attached,
                   provided, schedVars, obsVars>>

DestroyEntity(entity) ==
    LET r == EntityMap_destroy_entity(entities, entity) IN
    /\ run.phase = "idle"
    /\ entities' = r.map
    /\ components' = IF IsSome(r.result)
                     THEN App_destroy_components(components, Unwrap(r.result), entity)
                     ELSE components
    /\ destroyed' = destroyed \cup {entity}
    /\ killed' = IF App_entity_exists(entity) THEN killed \cup {entity} ELSE killed
    /\ attached' = IF App_entity_exists(entity)
                   THEN Detach(attached, {k \in DOMAIN attached : k[1] = entity})
                   ELSE attached
    /\ call' = Call("destroy_entity", << entity >>, "", None, 0)
    /\ scenario' = Scenario(0)
    /\ UNCHANGED <<resources, current_tick, returned, latest, provided, schedVars,
                   obsVars>>

AddComponent(entity, c, component) ==
    /\ run.phase = "idle"
    /\ call' = Call("add_component", << entity >>, c, None, component)
    /\ IF ~App_entity_exists(entity)
       THEN UNCHANGED <<entities, components, since, attached>>
       ELSE /\ attached' = MapInsert(attached, << entity, c >>, component)
            /\ components' =
                  MapInsert(components, c,
                      insert(IF c \in DOMAIN components THEN components[c]
                             ELSE ComponentContainer_new,
                             current_tick, entity, component))
            /\ entities' = EntityMap_add_component(entities, entity, c)
            /\ since' = Touch(since, {entity}, "insert")
    /\ scenario' = IF App_entity_exists(entity) /\ component = 1
                   THEN Scenario(2) ELSE Scenario(0)
    /\ UNCHANGED <<resources, current_tick, handleVars, provided, schedVars, obs,
                   deref_tick>>

RemoveComponent(entity, c) ==
    /\ run.phase = "idle"
    /\ IF ~App_entity_exists(entity)
       THEN /\ call' = Call("remove_component", << entity >>, c, None, 0)
            /\ UNCHANGED <<entities, components, attached>>
       ELSE LET r == IF c \in DOMAIN components
                     THEN remove(components[c], entity)
                     ELSE [container |-> << >>, result |-> None]
            IN  /\ entities' = EntityMap_remove_component(entities, entity, c)
                /\ components' = IF c \in DOMAIN components
                                 THEN [components EXCEPT ![c] = r.container]
                                 ELSE components
                /\ call' = Call("remove_component", << entity >>, c, r.result, 0)
                /\ attached' = Detach(attached, {<< entity, c >>})
    /\ scenario' = Scenario(0)
    /\ UNCHANGED <<resources, current_tick, handleVars, provided, schedVars, obsVars>>

\* e1 = app.create_entity(); app.destroy_entity(e1);
\* e2 = app.create_entity(), with nothing in between
CreateDestroyCreate ==
    LET r1 == EntityMap_create_entity(entities)
        e1 == r1.entity
        d == EntityMap_destroy_entity(r1.map, e1)
        r2 == EntityMap_create_entity(d.map)
        e2 == r2.entity
    IN  /\ run.phase = "idle"
        /\ e1.generation <= MaxGeneration
        /\ e2.generation <= MaxGeneration
        /\ Len(r2.map.entities) <= MaxEntities
        /\ entities' = r2.map
        /\ components' = IF IsSome(d.result)
                         THEN App_destroy_components(components, Unwrap(d.result), e1)
                         ELSE components
        /\ returned' = returned \cup {e1, e2}
        /\ latest' = MapInsert(MapInsert(latest, e1.id, e1), e2.id, e2)
        /\ destroyed' = ((destroyed \ {e1}) \cup {e1}) \ {e2}
        /\ killed' = IF EntityMap_entity_exists(r1.map, e1)
                     THEN killed \cup {e1} ELSE killed
        /\ attached' = IF EntityMap_entity_exists(r1.map, e1)
                       THEN Detach(attached, {k \in DOMAIN attached : k[1] = e1})
                       ELSE attached
        /\ call' = Call("create_destroy_create", << e1, e2 >>, "", None, 0)
        /\ scenario' = Scenario(0)
        /\ UNCHANGED <<resources, current_tick, provided, schedVars, obsVars>>

\* App::add_resource: a resource of the type is replaced
AddResource(r, resource) ==
    /\ run.phase = "idle"
    /\ resources' = MapInsert(resources, r, resource)
    /\ provided' = MapInsert(provided, r, resource)
    /\ scenario' = Scenario(0)
    /\ UNCHANGED <<entities, components, current_tick, handleVars, attached, call,
                   schedVars, obsVars>>

\* a remove that hands out a copy and keeps the resource
remove_resource_keeps(res, r) ==
    [resources |-> res,
     result |-> IF r \in DOMAIN res THEN Some(res[r]) ELSE None]

\* HashMap::remove of the type, the resource taken out of its lock and box
remove_resource(res, r) ==
    [resources |-> [k \in DOMAIN res \ {r} |-> res[k]],
     result |-> IF r \in DOMAIN res THEN Some(res[r]) ELSE None]

\* App::remove_resource
RemoveResource(r) ==
    LET removed == remove_resource(resources, r) IN
    /\ run.phase = "idle"
    /\ resources' = removed.resources
    /\ provided' = Detach(provided, {r})
    /\ call' = Call("remove_resource", << >>, r, removed.result, 0)
    /\ scenario' = Scenario(0)
    /\ UNCHANGED <<entities, components, current_tick, handleVars, attached,
                   schedVars, obsVars>>

NextTick ==
    /\ run.phase = "idle"
    /\ current_tick < MaxTick
    /\ current_tick' = current_tick + 1
    /\ call' = Call("next_tick", << >>, "", None, 0)
    /\ scenario' = Scenario(4)
    /\ UNCHANGED <<entities, components, resources, histVars, schedVars, obsVars>>

\* App::run of a closure |mut q: Query<RefMut<C>>| that calls
\* q.get_many_mut(es) once and drops the views.
HandleArrays ==
    UNION {[1..n -> returned] : n \in 0..MaxMany}

RunGetManyMut(c, es) ==
    LET r == Query_get_many_mut(components, c, es) IN
    /\ run.phase = "idle"
    /\ components' = r.components
    /\ call' = Call("get_many_mut", es, c, r.result, 0)
    /\ scenario' = Scenario(0)
    /\ UNCHANGED <<entities, resources, current_tick, histVars, schedVars, obsVars>>

\* The component types and the shapes of the queries run by closures.
QueryTypes == {"A", "B"}

QueryShapes ==
    [name \in {"Ref<A>", "RefMut<A>", "Option<RefMut<A>>",
               "(Ref<A>, Option<Ref<B>>)", "(RefMut<A>, Option<RefMut<B>>)"} |->
        CASE name = "Ref<A>" -> Shape_Ref("A")
          [] name = "RefMut<A>" -> Shape_RefMut("A")
          [] name = "Option<RefMut<A>>" -> Shape_Option(Shape_RefMut("A"))
          [] name = "(Ref<A>, Option<Ref<B>>)" ->
                Shape_Tuple(Shape_Ref("A"), Shape_Option(Shape_Ref("B")))
          [] name = "(RefMut<A>, Option<RefMut<B>>)" ->
                Shape_Tuple(Shape_RefMut("A"), Shape_Option(Shape_RefMut("B")))]

\* App::run of a closure |q: Query<Q>| that collects q.iter() (q.iter_mut())
RunIter(name) ==
    /\ run.phase = "idle"
    /\ call' = Call("iter", << >>, name,
                    Query_iter_shape(entities, components, QueryShapes[name]), 0)
    /\ scenario' = Scenario(0)
    /\ UNCHANGED <<appVars, histVars, schedVars, obsVars>>

\* App::run of a closure |mut q: Query<Q>| that calls q.get_many_mut(es)
\* once and drops the views.
RunShapeGetManyMut(name, es) ==
    LET r == Trait_get_many_mut(components, QueryShapes[name], es) IN
    /\ run.phase = "idle"
    /\ components' = r.components
    /\ call' = Call("query_get_many_mut", es, name, r.result, 0)
    /\ scenario' = Scenario(0)
    /\ UNCHANGED <<entities, resources, current_tick, histVars, schedVars, obsVars>>

\* ------------------------------------------------- registration and runs
ParamBorrows ==
    {Borrow("component", c, t) : c \in ComponentTypes, t \in BorrowTypes}
        \cup {Borrow("resource", r, t) : r \in ResourceTypes, t \in BorrowTypes}

ParamLists == UNION {[1..n -> ParamBorrows] : n \in 0..MaxParams}

\* set.register_system(f); a panic of check_system ends the program
RegisterSystem(params, body) ==
    LET system == SystemFunctionWrapper(params, body) IN
    /\ run.phase = "idle"
    /\ CountSystems(system_groups, 1) + CountSystems(nested_groups, 1) < MaxSystems
    /\ ~check_system(system).panic
    /\ system_groups' = register_system(system_groups, system)
    /\ scenario' = Scenario(0)
    /\ UNCHANGED <<appVars, histVars, call, obsVars,
                   nested_groups, locks, run, lock_failed, cmdVars>>

\* set.register_system(f) of any function, its panic caught by the caller:
\* check_system panics before the set is touched
TryRegisterSystem(params) ==
    LET system == SystemFunctionWrapper(params, "")
        checked == check_system(system)
    IN  /\ run.phase = "idle"
        /\ CountSystems(system_groups, 1) < MaxSystems
        /\ system_groups' = IF checked.panic
                            THEN system_groups
                            ELSE register_system(system_groups, system)
        /\ call' = Call("register_system", << >>, checked.name,
                        Some([params |-> params, panic |-> checked.panic,
                              kind |-> checked.kind, before |-> system_groups]), 0)
        /\ scenario' = Scenario(0)
        /\ UNCHANGED <<appVars, histVars, obsVars,
                       nested_groups, locks, run, lock_failed, cmdVars>>

\* inner.register_system(f), on the set that will be nested
RegisterNested(params, body) ==
    LET system == SystemFunctionWrapper(params, body) IN
    /\ run.phase = "idle"
    /\ CountSystems(system_groups, 1) + CountSystems(nested_groups, 1) < MaxSystems
    /\ Cardinality(NestedSets(system_groups)) < MaxNestedSets
    /\ ~check_system(system).panic
    /\ nested_groups' = register_system(nested_groups, system)
    /\ scenario' = Scenario(0)
    /\ UNCHANGED <<appVars, histVars, call, obsVars,
                   system_groups, locks, run, lock_failed, cmdVars>>

\* set.register_system(inner)
RegisterSet ==
    LET system == SystemSetAsSystem(nested_groups) IN
    /\ run.phase = "idle"
    /\ nested_groups # << >>
    /\ Cardinality(NestedSets(system_groups)) < MaxNestedSets
    /\ ~check_system(system).panic
    /\ system_groups' = register_system(system_groups, system)
    /\ nested_groups' = << >>
    /\ scenario' = Scenario(0)
    /\ UNCHANGED <<appVars, histVars, call, obsVars, locks, run, lock_failed, cmdVars>>

\* What a function that has run leaves in the history: what it saw, with
\* what was known of the component when it saw it, and what it touched.
\* since follows the observing systems that are kept in a set.
Observed(key, system, r) ==
    {[system |-> key, entity |-> s.entity, modified |-> s.modified,
      value |-> s.value, last_run_tick |-> system.last_run_tick,
      tick |-> current_tick,
      ran_before |-> key \in DOMAIN since,
      inserted |-> key \in DOMAIN since /\ << "insert", s.entity >> \in since[key],
      mutated |-> key \in DOMAIN since /\ << "mutate", s.entity >> \in since[key],
      deref_tick |-> IF s.entity \in DOMAIN deref_tick
                     THEN deref_tick[s.entity] ELSE -1] : s \in r.seen}

History(key, system, r, kept) ==
    IF ~r.ran \/ system.body = ""
    THEN UNCHANGED obsVars
    ELSE /\ obs' = IF system.body = "observe" THEN Observed(key, system, r) ELSE obs
         /\ since' = IF kept /\ system.body = "observe"
                     THEN MapInsert(Touch(since, r.touched, "mutate"), key, {})
                     ELSE Touch(since, r.touched, "mutate")
         /\ deref_tick' = [h \in DOMAIN deref_tick \cup r.touched |->
                              IF h \in r.touched THEN current_tick ELSE deref_tick[h]]

\* app.run(f) of a function: into_system makes a fresh wrapper, which runs
\* on the calling thread and is dropped.  The function sends no command,
\* and the channel of the run is drained empty.
RunFunction(params, body) ==
    LET system == SystemFunctionWrapper(params, body)
        r == run_function(system, FunctionTask(system), locks, components,
                          resources, entities, current_tick)
    IN  /\ run.phase = "idle"
        /\ ~lock_failed
        /\ CommandsOf(body) = << >>
        /\ BodyBounded(system, entities, components)
        /\ queue' = << >>
        /\ sent' = << >>
        /\ applied' = << >>
        /\ components' = r.components
        /\ locks' = r.locks
        /\ lock_failed' = (r.panic = "lock")
        /\ History(<< 0 >>, system, r, FALSE)
        /\ scenario' = IF body = "mutate" THEN Scenario(3)
                       ELSE IF body = "observe" THEN Scenario(5)
                       ELSE Scenario(0)
        /\ UNCHANGED <<entities, resources, current_tick, histVars, call,
                       system_groups, nested_groups, run>>

\* app.run(&mut set): the first wave's systems are handed to the pool
StartRun ==
    /\ run.phase = "idle"
    /\ system_groups # << >>
    /\ ~lock_failed
    /\ run' = [phase |-> "running", wave |-> 1,
               tasks |-> [i \in 1..Len(system_groups[1].systems) |->
                             SystemTask(system_groups[1].systems[i])]]
    /\ queue' = << >>
    /\ sent' = << >>
    /\ applied' = << >>
    /\ scenario' = Scenario(0)
    /\ UNCHANGED <<appVars, histVars, call, obsVars,
                   system_groups, nested_groups, locks, lock_failed>>

\* a step of the thread of system t of the running wave
TaskStep(t) ==
    /\ run.phase = "running"
    /\ ~lock_failed
    /\ run.tasks[t].pc \in {"lock", "run"}
    /\ LET system == system_groups[run.wave].systems[t]
           r == function_step(system, run.tasks[t], locks, components,
                              resources, entities, current_tick)
       IN  /\ run.tasks[t].pc = "run" => BodyBounded(system, entities, components)
           /\ run.tasks[t].pc = "run" =>
                  SentBy(queue, << run.wave, t >>) = Len(CommandsOf(system.body))
           /\ run' = [run EXCEPT !.tasks[t] = r.task]
           /\ locks' = r.locks
           /\ lock_failed' = (r.panic = "lock")
           /\ system_groups' = [system_groups EXCEPT ![run.wave].systems[t] = r.system]
           /\ components' = r.components
           /\ History(<< run.wave, t >>, system, r, TRUE)
    /\ scenario' = Scenario(0)
    /\ UNCHANGED <<entities, resources, current_tick, histVars, call, nested_groups,
                   cmdVars>>

\* a step of the thread of system u of the running wave of the nested set t
NestedTaskStep(t, u) ==
    /\ run.phase = "running"
    /\ ~lock_failed
    /\ run.tasks[t].pc = "set"
    /\ u \in 1..Len(run.tasks[t].tasks)
    /\ run.tasks[t].tasks[u].pc \in {"lock", "run"}
    /\ LET w == run.tasks[t].wave
           system == system_groups[run.wave].systems[t].system_groups[w].systems[u]
           r == function_step(system, run.tasks[t].tasks[u], locks, components,
                              resources, entities, current_tick)
       IN  /\ run.tasks[t].tasks[u].pc = "run" =>
                  BodyBounded(system, entities, components)
           /\ run' = [run EXCEPT !.tasks[t].tasks[u] = r.task]
           /\ locks' = r.locks
           /\ lock_failed' = (r.panic = "lock")
           /\ system_groups' =
                 [system_groups EXCEPT
                     ![run.wave].systems[t].system_groups[w].systems[u] = r.system]
           /\ components' = r.components
           /\ History(<< run.wave, t, w, u >>, system, r, TRUE)
    /\ scenario' = Scenario(0)
    /\ UNCHANGED <<entities, resources, current_tick, histVars, call, nested_groups,
                   cmdVars>>

\* the nested set's for loop: its wave has finished, the next one starts
NestedWaveDone(t) ==
    /\ run.phase = "running"
    /\ ~lock_failed
    /\ run.tasks[t].pc = "set"
    /\ AllDone(run.tasks[t].tasks)
    /\ LET inner == system_groups[run.wave].systems[t]
           w == run.tasks[t].wave
       IN  run' = [run EXCEPT !.tasks[t] =
                      IF w < Len(inner.system_groups)
                      THEN Task("set", 0, w + 1, WaveTasks(inner.system_groups[w + 1]))
                      ELSE Task("done", 0, 0, << >>)]
    /\ scenario' = Scenario(0)
    /\ UNCHANGED <<appVars, histVars, call, obsVars,
                   system_groups, nested_groups, locks, lock_failed, cmdVars>>

\* the end of App::run: the sender is dropped and the receiver is drained,
\* every command called with the App
DrainCommands(q) ==
    LET app == Drain(AppState(entities, components, current_tick, returned,
                              latest, destroyed, killed, attached), q)
    IN  /\ DrainBounded(app)
        /\ entities' = app.entities
        /\ components' = app.components
        /\ current_tick' = app.current_tick
        /\ returned' = app.returned
        /\ latest' = app.latest
        /\ destroyed' = app.destroyed
        /\ killed' = app.killed
        /\ attached' = app.attached
        /\ applied' = app.applied
        /\ queue' = << >>
        /\ UNCHANGED provided

\* a command that is called with the App when it is sent
SendCommandApplied(t) ==
    /\ run.phase = "running"
    /\ ~lock_failed
    /\ run.tasks[t].pc = "run"
    /\ LET system == system_groups[run.wave].systems[t]
           n == SentBy(sent, << run.wave, t >>)
           command == Command(<< run.wave, t >>, n + 1, run.wave,
                              CommandsOf(system.body)[n + 1])
       IN  /\ n < Len(CommandsOf(system.body))
           /\ DrainCommands(<< command >>)
           /\ sent' = Append(sent, command)
    /\ scenario' = Scenario(0)
    /\ UNCHANGED <<resources, call, obsVars,
                   system_groups, nested_groups, locks, run, lock_failed>>

\* the function of a system of the running wave sends its next command
SendCommand(t) ==
    /\ run.phase = "running"
    /\ ~lock_failed
    /\ run.tasks[t].pc = "run"
    /\ LET system == system_groups[run.wave].systems[t]
           n == SentBy(queue, << run.wave, t >>)
           command == Command(<< run.wave, t >>, n + 1, run.wave,
                              CommandsOf(system.body)[n + 1])
       IN  /\ n < Len(CommandsOf(system.body))
           /\ queue' = Append(queue, command)
           /\ sent' = Append(sent, command)
    /\ scenario' = Scenario(0)
    /\ UNCHANGED <<appVars, histVars, call, obsVars, applied,
                   system_groups, nested_groups, locks, run, lock_failed>>

\* the set's for loop: the wave has finished, the next one starts, or
\* the set has run and App::run drains the commands and returns
WaveDone ==
    /\ run.phase = "running"
    /\ ~lock_failed
    /\ AllDone(run.tasks)
    /\ IF run.wave < Len(system_groups)
       THEN /\ run' = [phase |-> "running", wave |-> run.wave + 1,
                       tasks |-> [i \in 1..Len(system_groups[run.wave + 1].systems) |->
                                     SystemTask(system_groups[run.wave + 1].systems[i])]]
            /\ UNCHANGED <<entities, components, current_tick, histVars,
                           queue, applied>>
       ELSE /\ run' = Idle
            /\ DrainCommands(queue)
    /\ scenario' = Scenario(0)
    /\ UNCHANGED <<resources, call, obsVars, sent,
                   system_groups, nested_groups, locks, lock_failed>>

\* app.run(f) of a function |mut commands: Commands| on the calling
\* thread: it sends its commands, App::run drains them and returns
RunCommands(body) ==
    LET cmds == CommandsOf(body)
        q == [n \in 1..Len(cmds) |-> Command(<< 0 >>, n, 0, cmds[n])]
    IN  /\ run.phase = "idle"
        /\ ~lock_failed
        /\ cmds # << >>
        /\ ~Panics(body)
        /\ sent' = q
        /\ DrainCommands(q)
        /\ scenario' = Scenario(0)
        /\ UNCHANGED <<resources, call, obsVars,
                       system_groups, nested_groups, locks, run, lock_failed>>

\* the system of the running wave has not been started by the pool
NotStarted(t) ==
    /\ run.tasks[t] = SystemTask(system_groups[run.wave].systems[t])
    /\ SentBy(queue, << run.wave, t >>) = 0

\* The panic of a function leaves App::run: the pool has joined the
\* systems of the wave it had started, those it had not are skipped, and
\* the sender and the receiver of the channel are dropped with the
\* commands in it.  The caller catches the panic.
Unwind ==
    /\ run.phase = "running"
    /\ ~lock_failed
    /\ \E t \in 1..Len(run.tasks) : run.tasks[t].pc = "panicked"
    /\ \A t \in 1..Len(run.tasks) :
          run.tasks[t].pc \in {"done", "panicked"} \/ NotStarted(t)
    /\ run' = Idle
    /\ queue' = << >>
    /\ applied' = << >>
    /\ call' = Call("run", << >>, "panic", None, 0)
    /\ scenario' = Scenario(0)
    /\ UNCHANGED <<appVars, histVars, obsVars, sent,
                   system_groups, nested_groups, locks, lock_failed>>

\* ------------------------------------------------------ specifications
\* The registry and the tables under the App's operations.
Next ==
    \/ CreateEntity
    \/ \E entity \in returned : DestroyEntity(entity)
    \/ \E entity \in returned, c \in ComponentTypes, v \in ComponentValues :
          AddComponent(entity, c, v)
    \/ \E entity \in returned, c \in ComponentTypes : RemoveComponent(entity, c)
    \/ NextTick

Spec == Init /\ [][Next]_vars

\* The tables under get_many_mut.
NextMany ==
    \/ CreateEntity
    \/ \E entity \in returned : DestroyEntity(entity)
    \/ \E entity \in returned, c \in ComponentTypes : AddComponent(entity, c, 1)
    \/ \E c \in ComponentTypes, es \in HandleArrays : RunGetManyMut(c, es)

SpecMany == Init /\ [][NextMany]_vars

\* The registry under create and destroy, and under the sequence create,
\* destroy of the created, create.
NextReuse ==
    \/ CreateEntity
    \/ \E entity \in returned : DestroyEntity(entity)
    \/ CreateDestroyCreate

SpecReuse == Init /\ [][NextReuse]_vars

\* The resources under add_resource and remove_resource, among the App's
\* other operations.
NextResource ==
    \/ \E r \in ResourceTypes, v \in ComponentValues : AddResource(r, v)
    \/ \E r \in ResourceTypes : RemoveResource(r)
    \/ Len(entities.entities) < MaxRunEntities /\ CreateEntity
    \/ \E entity \in returned, c \in ComponentTypes, v \in ComponentValues :
          AddComponent(entity, c, v)
    \/ NextTick

SpecResource == Init /\ [][NextResource]_vars

\* The scheduler.  The App is set up first, with every table and resource
\* the systems can name (the case with the most locks), then sets are
\* registered and run.  A set under construction takes no part in a run.
Unregistered == system_groups = << >> /\ nested_groups = << >>

Ready ==
    /\ ComponentTypes \subseteq DOMAIN components
    /\ ResourceTypes \subseteq DOMAIN resources

NextSched ==
    \/ Unregistered /\ Len(entities.entities) < MaxRunEntities /\ CreateEntity
    \/ /\ Unregistered
       /\ \E entity \in returned, c \in ComponentTypes : AddComponent(entity, c, 1)
    \/ Unregistered /\ \E r \in ResourceTypes : AddResource(r, 1)
    \/ Ready /\ \E params \in ParamLists : RegisterSystem(params, "")
    \/ Ready /\ \E params \in ParamLists : RegisterNested(params, "")
    \/ RegisterSet
    \/ nested_groups = << >> /\ StartRun
    \/ \E t \in 1..Len(run.tasks) : TaskStep(t)
    \/ \E t \in 1..Len(run.tasks), u \in 1..MaxSystems : NestedTaskStep(t, u)
    \/ \E t \in 1..Len(run.tasks) : NestedWaveDone(t)
    \/ WaveDone

SpecSched == Init /\ [][NextSched]_vars

\* Registration of functions with every parameter list, those that
\* check_system refuses included.
NextRegister == \E params \in ParamLists : TryRegisterSystem(params)

SpecRegister == Init /\ [][NextRegister]_vars

\* Change detection: a reading and a writing function of one component,
\* as systems of a set and as functions handed to App::run.
Reader == << Borrow("component", "A", "Immutable") >>
Writer == << Borrow("component", "A", "Mutable") >>

NextChange ==
    \/ Len(entities.entities) < MaxRunEntities /\ CreateEntity
    \/ \E entity \in returned : AddComponent(entity, "A", 1)
    \/ NextTick
    \/ RegisterSystem(Reader, "observe")
    \/ RegisterSystem(Writer, "mutate")
    \/ RunFunction(Reader, "observe")
    \/ RunFunction(Writer, "mutate")
    \/ StartRun
    \/ \E t \in 1..Len(run.tasks) : TaskStep(t)
    \/ WaveDone

SpecChange == Init /\ [][NextChange]_vars

\* Queries of every shape over two component types.
NextQuery ==
    \/ Len(entities.entities) < MaxQueryEntities /\ CreateEntity
    \/ \E entity \in returned : DestroyEntity(entity)
    \/ \E entity \in returned, c \in QueryTypes : AddComponent(entity, c, 1)
    \/ \E entity \in returned, c \in QueryTypes : RemoveComponent(entity, c)
    \/ \E name \in DOMAIN QueryShapes : RunIter(name)
    \/ \E name \in DOMAIN QueryShapes, es \in HandleArrays :
          RunShapeGetManyMut(name, es)

SpecQuery == Init /\ [][NextQuery]_vars

\* Commands: functions that queue commands, as systems of one wave (no
\* borrow) or of several (each "queue_create" writes A), and as functions
\* handed to App::run.  The registry is set up first.
CommandBodies == {"queue_s4", "queue_create"}

NextCommands ==
    \/ Unregistered /\ CreateEntity
    \/ /\ Unregistered
       /\ \E entity \in returned : App_entity_exists(entity) /\ DestroyEntity(entity)
    \/ /\ CountSystems(system_groups, 1) < MaxCommandSystems
       /\ \/ RegisterSystem(<< >>, "queue_s4")
          \/ RegisterSystem(Writer, "queue_create")
    \/ \E body \in CommandBodies : RunCommands(body)
    \/ StartRun
    \/ \E t \in 1..Len(run.tasks) : SendCommand(t)
    \/ \E t \in 1..Len(run.tasks) : TaskStep(t)
    \/ WaveDone

SpecCommands == Init /\ [][NextCommands]_vars

\* Bundles: components added and removed directly and by the commands of
\* functions handed to App::run, on handles alive and dead.
BundleBodies == {"queue_add", "queue_remove"}

NextBundles ==
    \/ CreateEntity /\ Len(entities'.entities) <= MaxRunEntities
    \/ \E entity \in returned : DestroyEntity(entity)
    \/ \E entity \in returned, v \in ComponentValues : AddComponent(entity, "A", v)
    \/ \E entity \in returned : RemoveComponent(entity, "A")
    \/ \E body \in BundleBodies : Target \in returned /\ RunCommands(body)

SpecBundles == Init /\ [][NextBundles]_vars

\* Spawning: a function handed to App::run queues create_entity((A(1),)),
\* on a registry with slots alive, dead and reused.
NextSpawn ==
    \/ CreateEntity
    \/ \E entity \in returned : App_entity_exists(entity) /\ DestroyEntity(entity)
    \/ \E entity \in returned : AddComponent(entity, "A", 2)
    \/ RunCommands("queue_spawn") /\ Len(entities'.entities) <= MaxEntities

SpecSpawn == Init /\ [][NextSpawn]_vars

\* Deferred commands: functions that write A and queue the spawn of an
\* entity with A and the removal of A from the first entity, in waves of
\* one set.  The registry and the rows are set up first.
NextDeferred ==
    \/ Unregistered /\ Len(entities.entities) < MaxRunEntities /\ CreateEntity
    \/ Unregistered /\ \E entity \in returned : AddComponent(entity, "A", 2)
    \/ /\ CountSystems(system_groups, 1) < MaxSystems
       /\ Target \in returned
       /\ \/ RegisterSystem(Writer, "queue_spawn")
          \/ RegisterSystem(Writer, "queue_remove")
          \/ RegisterSystem(<< >>, "queue_add")
    \/ StartRun
    \/ \E t \in 1..Len(run.tasks) : SendCommand(t)
    \/ \E t \in 1..Len(run.tasks) : TaskStep(t)
    \/ WaveDone

SpecDeferred == Init /\ [][NextDeferred]_vars

\* Panics: functions that queue commands, one of which panics while it
\* holds the guard of A, as systems of a set that is run again after the
\* panic has been caught.
NextPanic ==
    \/ Unregistered /\ Len(entities.entities) < MaxRunEntities /\ CreateEntity
    \/ Unregistered /\ \E entity \in returned : AddComponent(entity, "A", 1)
    \/ RegisterSystem(Writer, "queue_panic")
    \/ RegisterSystem(<< >>, "queue_create")
    \/ RegisterSystem(Reader, "queue_create")
    \/ StartRun
    \/ \E t \in 1..Len(run.tasks) : SendCommand(t)
    \/ \E t \in 1..Len(run.tasks) : TaskStep(t)
    \/ WaveDone
    \/ Unwind

SpecPanic == Init /\ [][NextPanic]_vars

\* The tick under every operation of the App: entities, components and
\* resources added and removed, next_tick, and runs of a set and of a
\* function whose commands add a component and remove it.
NextTicks ==
    \/ Len(entities.entities) < MaxRunEntities /\ CreateEntity
    \/ \E entity \in returned : DestroyEntity(entity)
    \/ \E entity \in returned : AddComponent(entity, "A", 1)
    \/ \E entity \in returned : RemoveComponent(entity, "A")
    \/ \E r \in ResourceTypes : AddResource(r, 1)
    \/ \E r \in ResourceTypes : RemoveResource(r)
    \/ NextTick
    \/ /\ CountSystems(system_groups, 1) < MaxCommandSystems
       /\ RegisterSystem(Writer, "queue_add")
    \/ StartRun
    \/ \E t \in 1..Len(run.tasks) : SendCommand(t)
    \/ \E t \in 1..Len(run.tasks) : TaskStep(t)
    \/ WaveDone
    \/ Target \in returned /\ RunCommands("queue_remove")

SpecTicks == Init /\ [][NextTicks]_vars

\* Silent writes: functions that write A through silently_modify and
\* through deref_mut and one that reads it, as systems of a set and as a
\* closure, and a function that takes ResMut<R>.
ResWriter == << Borrow("resource", "R", "Mutable") >>

NextSilent ==
    \/ Unregistered /\ Len(entities.entities) < MaxRunEntities /\ CreateEntity
    \/ Unregistered /\ \E entity \in returned : AddComponent(entity, "A", 1)
    \/ Unregistered /\ \E r \in ResourceTypes : AddResource(r, 1)
    \/ NextTick
    \/ /\ CountSystems(system_groups, 1) < MaxCommandSystems
       /\ \/ RegisterSystem(Writer, "silent")
          \/ RegisterSystem(Writer, "mutate")
          \/ RegisterSystem(Reader, "observe")
          \/ RegisterSystem(ResWriter, "silent")
    \/ RunFunction(Writer, "silent")
    \/ StartRun
    \/ \E t \in 1..Len(run.tasks) : TaskStep(t)
    \/ WaveDone
    \/ Unwind

SpecSilent == Init /\ [][NextSilent]_vars

\* Runs started through App::run: of a set whose systems were registered,
\* and of a function passed directly, which no check_system has seen.
NextDirect ==
    \/ Unregistered /\ Len(entities.entities) < MaxRunEntities /\ CreateEntity
    \/ /\ Unregistered
       /\ \E entity \in returned, c \in ComponentTypes : AddComponent(entity, c, 1)
    \/ Unregistered /\ \E r \in ResourceTypes : AddResource(r, 1)
    \/ \E params \in ParamLists : RegisterSystem(params, "")
    \/ StartRun
    \/ \E t \in 1..Len(run.tasks) : TaskStep(t)
    \/ WaveDone
    \/ \E params \in ParamLists : RunFunction(params, "")

SpecDirect == Init /\ [][NextDirect]_vars

\* The registry with generations in words of WordBits bits, under create
\* and destroy, up to the last generation of the word.
NextWord ==
    \/ \E overflow_checks \in BOOLEAN : CreateEntityWord(overflow_checks)
    \/ \E entity \in returned : DestroyEntity(entity)

SpecWord == Init /\ [][NextWord]_vars

\* ------------------------------------------ src/lib.rs: the stand-alone ECS
\* The ECS type keeps its registry as a vector of (alive, gen) and a cursor.
\* Its entity operations are modelled on the variable `entities`, a
\* registry slot being [alive, gen] and a handle [id, gen]; `returned`
\* holds the handles created and `killed` those destroy_entity returned
\* true for.  No component is attached in this model.

\* ECS::is_entity_valid
ECS_is_entity_valid(ecs, entity) ==
    /\ entity.id < Len(ecs.entities)
    /\ ecs.entities[entity.id + 1].alive
    /\ ecs.entities[entity.id + 1].gen = entity.gen

\* ECS::create_entity: the cursor walks to the first dead slot, which is
\* revived with the next generation; with none, a slot of generation 1 is
\* pushed
RECURSIVE ECS_create_entity(_)
ECS_create_entity(ecs) ==
    LET n == ecs.next_free_entity IN
    IF n < Len(ecs.entities)
    THEN IF ~ecs.entities[n + 1].alive
         THEN [ecs |-> [ecs EXCEPT !.entities[n + 1] =
                                      [alive |-> TRUE, gen |-> @.gen + 1]],
               entity |-> [id |-> n, gen |-> ecs.entities[n + 1].gen + 1]]
         ELSE ECS_create_entity([ecs EXCEPT !.next_free_entity = n + 1])
    ELSE [ecs |-> [ecs EXCEPT !.entities =
                                 Append(@, [alive |-> TRUE, gen |-> 1])],
          entity |-> [id |-> Len(ecs.entities), gen |-> 1]]

\* "Free up unused entities": the dead slots at the end are popped
RECURSIVE ECS_pop_dead(_)
ECS_pop_dead(slots) ==
    IF slots # << >> /\ ~slots[Len(slots)].alive
    THEN ECS_pop_dead(SubSeq(slots, 1, Len(slots) - 1))
    ELSE slots

\* ECS::destroy_entity: the result and the registry after it
ECS_destroy_entity(ecs, entity) ==
    IF ~ECS_is_entity_valid(ecs, entity)
    THEN [ecs |-> ecs, result |-> FALSE]
    ELSE [ecs |-> [entities |->
                      ECS_pop_dead([ecs.entities EXCEPT ![entity.id + 1].alive = FALSE]),
                   next_free_entity |->
                      IF entity.id < ecs.next_free_entity
                      THEN entity.id ELSE ecs.next_free_entity],
          result |-> TRUE]

\* ecs.create_entity()
ECS_CreateEntity ==
    LET r == ECS_create_entity(entities) IN
    /\ r.entity.gen <= MaxGeneration
    /\ Len(r.ecs.entities) <= MaxEntities
    /\ entities' = r.ecs
    /\ returned' = returned \cup {r.entity}
    /\ call' = Call("create_entity", << r.entity >>, "", None, 0)
    /\ scenario' = Scenario(0)
    /\ UNCHANGED <<components, resources, current_tick, latest, destroyed, killed,
                   attached, provided, schedVars, obsVars>>

\* ecs.destroy_entity(entity)
ECS_DestroyEntity(entity) ==
    LET r == ECS_destroy_entity(entities, entity) IN
    /\ entities' = r.ecs
    /\ killed' = IF r.result THEN killed \cup {entity} ELSE killed
    /\ call' = Call("destroy_entity", << entity >>, "", Some(r.result), 0)
    /\ scenario' = Scenario(0)
    /\ UNCHANGED <<components, resources, current_tick, returned, latest, destroyed,
                   attached, provided, schedVars, obsVars>>

NextECS ==
    \/ ECS_CreateEntity
    \/ \E entity \in returned : ECS_DestroyEntity(entity)

SpecECS == Init /\ [][NextECS]_vars

\* ------------------------------------------------------------ the claims

\* C1: after any sequence of create_entity/destroy_entity calls,
\* entity_exists(h) is true if and only if h is the handle most recently
\* returned by create_entity for h.id and destroy_entity(h) has not been
\* called since.
C1_ExistsIffLatestAndNotDestroyed ==
    \A h \in returned :
        App_entity_exists(h) <=> (latest[h.id] = h /\ h \notin destroyed)

\* C2: a handle that exists keeps existing across every step that is not
\* destroy_entity of that same handle, and create_entity never returns a
\* handle whose id is that of an existing handle.
C2_HandleStaysUntilDestroyed ==
    [][ /\ \A h \in returned :
              (/\ App_entity_exists(h)
               /\ ~(call'.op = "destroy_entity" /\ call'.entities = << h >>))
              => EntityMap_entity_exists(entities', h)
        /\ call'.op = "create_entity" =>
              \A h \in returned :
                  App_entity_exists(h) => h.id # call'.entities[1].id
      ]_vars

\* C3: every handle create_entity returns has an even generation >= 2; a
\* pushed slot gets generation 2 and a revived slot its old, odd,
\* generation plus 1.
C3_ReturnedGenerationEven ==
    call.op = "create_entity" =>
        LET h == call.entities[1] IN
        /\ h.generation % 2 = 0
        /\ h.generation >= 2
        /\ (call.result = None => h.generation = NEW_GENERATION)
        /\ (IsSome(call.result) =>
               /\ Unwrap(call.result) % 2 = 1
               /\ h.generation = Unwrap(call.result) + 1)

PairwiseDistinct(s) ==
    \A i, j \in 1..Len(s) : i # j => s[i] # s[j]

HasComponent(entity, c) ==
    /\ App_entity_exists(entity)
    /\ c \in entities.entities[entity.id + 1].types

\* C4, for arrays of N >= 1 handles: get_many_mut(es) returns N write
\* views, view i being the slot of es[i] and no two views the same slot,
\* if and only if the handles are pairwise distinct, alive and each has a
\* C attached; otherwise it returns None.
C4_GetManyMutIffDistinctAlive ==
    (call.op = "get_many_mut" /\ Len(call.entities) >= 1) =>
        LET es == call.entities IN
        /\ IsSome(call.result) <=>
              (/\ PairwiseDistinct(es)
               /\ \A k \in 1..Len(es) : HasComponent(es[k], call.type))
        /\ IsSome(call.result) =>
              /\ Len(Unwrap(call.result)) = Len(es)
              /\ PairwiseDistinct(Unwrap(call.result))
              /\ \A k \in 1..Len(es) : Unwrap(call.result)[k] = es[k].id

\* C5: a get_many_mut call, successful or not, leaves every slot's stored
\* generation, value and last_modified_tick as they were.
C5_GetManyMutLeavesTables ==
    [][ call'.op = "get_many_mut" => components' = components ]_vars

\* The borrows a system declares, resources and components
DeclaredBorrows(system) ==
    LET bs == get_types(system, "resource") \o get_types(system, "component")
    IN  {bs[i] : i \in 1..Len(bs)}

\* No type is borrowed by both, unless both borrow it immutably
ConflictFree(s1, s2) ==
    \A a \in DeclaredBorrows(s1), b \in DeclaredBorrows(s2) :
        (a.kind = b.kind /\ a.id = b.id) =>
            (a.borrow_type = "Immutable" /\ b.borrow_type = "Immutable")

WavesConflictFree(groups) ==
    \A k \in 1..Len(groups) :
        \A i, j \in 1..Len(groups[k].systems) :
            i # j => ConflictFree(groups[k].systems[i], groups[k].systems[j])

\* every set there is: the outer one, the one under construction, and the
\* sets registered as systems of the outer one
AllSets ==
    {system_groups, nested_groups}
        \cup {system_groups[p[1]].systems[p[2]].system_groups :
                p \in NestedSets(system_groups)}

\* C6: after any sequence of register_system calls, any two systems that
\* are in the same wave of a set have conflict-free declared borrows: no
\* type is borrowed by both unless both borrow it immutably.
C6_SameWaveConflictFree ==
    \A groups \in AllSets : WavesConflictFree(groups)

\* C6's case: a set of three systems in two waves, the first wave holding
\* two systems that borrow the same type, the second a system that
\* conflicts with the first wave.
C6_Witness ==
    /\ Len(system_groups) = 2
    /\ Len(system_groups[1].systems) = 2
    /\ \E a \in DeclaredBorrows(system_groups[1].systems[1]) :
          a \in DeclaredBorrows(system_groups[1].systems[2])
    /\ ~ConflictFree(system_groups[1].systems[1], system_groups[2].systems[1])

\* C7: while App.run executes a set built through register_system, nested
\* sets included, no try_read or try_write on a component table or a
\* resource fails, whatever the interleaving of the systems of a wave.
C7_NoLockFails == ~lock_failed

\* C7's case: a function of the outer wave and a function of a nested set
\* of the same wave both hold their guards at the same time, on a lock
\* that two readers share.
C7_Witness ==
    /\ run.phase = "running"
    /\ \E t, t2 \in 1..Len(run.tasks) :
          /\ run.tasks[t].pc = "set"
          /\ \E u \in 1..Len(run.tasks[t].tasks) :
                run.tasks[t].tasks[u].pc = "run" /\ run.tasks[t].tasks[u].locked > 0
          /\ run.tasks[t2].pc = "run" /\ run.tasks[t2].locked > 0
    /\ \E key \in LockKeys : locks[key].readers >= 2

\* C8: if a component was deref-mutated through a RefMut at tick T, a
\* later Ref to it reports get_modified() = TRUE when the observing
\* system's last_run_tick is below T.
C8_MutationSeenByOlderSystem ==
    \A o \in obs :
        (o.deref_tick >= 0 /\ o.last_run_tick < o.deref_tick) => o.modified

\* C8's case: a mutation at a tick T >= 1 observed by a system that ran
\* last before T
C8_Witness ==
    \E o \in obs :
        o.deref_tick >= 1 /\ o.last_run_tick < o.deref_tick /\ o.modified

\* C9: scenario S1 on a fresh App (create an entity, add A(1), run a
\* function that does A.value += 1, next_tick, run a function that reads A
\* through Ref<A>): the reader sees get_modified() = TRUE and the value 2.
C9_ScenarioS1 ==
    scenario = 5 =>
        /\ obs # {}
        /\ \A o \in obs : o.modified /\ o.value = 2

\* C10: for a system kept in a set and run again, get_modified() is TRUE
\* exactly when the component was inserted or deref-mutated since the
\* system last ran, a mutation by another system later in the tick of
\* that last run included.  Stated for the components that were not
\* inserted since: get_modified() is TRUE exactly when one was mutated.
C10_ModifiedIffMutatedSinceLastRun ==
    \A o \in obs :
        (o.ran_before /\ ~o.inserted) => (o.modified <=> o.mutated)

\* C11: after destroy_entity(h) on a handle h that existed, in every later
\* state Query::get(h) is None for every component type, and neither
\* Query::iter nor Entities::iter yields h.
C11_DestroyedHandleStaysGone ==
    \A h \in killed :
        /\ \A c \in ComponentTypes :
              /\ Query_get(components, c, h) = None
              /\ h \notin body_entities(entities, components, c)
        /\ h \notin Entities_iter(entities)

\* What the documentation of a query promises for a shape and a handle:
\* the components the shape requires, and the view it gives.
RECURSIVE Requires(_, _)
Requires(q, entity) ==
    IF q.kind \in {"Ref", "RefMut"} THEN HasComponent(entity, q.c)
    ELSE IF q.kind = "Option" THEN TRUE
    ELSE \A k \in 1..Len(q.parts) : Requires(q.parts[k], entity)

RECURSIVE Promised(_, _)
Promised(q, entity) ==
    IF q.kind \in {"Ref", "RefMut"} THEN View(q.c, entity.id)
    ELSE IF q.kind = "Option"
    THEN IF Requires(q.parts[1], entity)
         THEN Some(Promised(q.parts[1], entity))
         ELSE None
    ELSE [k \in 1..Len(q.parts) |-> Promised(q.parts[k], entity)]

\* C12: Query::iter yields (e, view) exactly for the alive entities e that
\* have every non-optional component of Q attached, each once; an Option
\* part whose component is absent is None in the view and neither
\* suppresses the row nor ends the iteration.
C12_IterYieldsEveryMatch ==
    call.op = "iter" =>
        LET q == QueryShapes[call.type]
            rows == call.result
        IN  /\ {rows[i] : i \in 1..Len(rows)}
                  = {<< e, Promised(q, e) >> :
                        e \in {h \in Entities_iter(entities) : Requires(q, h)}}
            /\ \A i, j \in 1..Len(rows) : rows[i] = rows[j] => i = j

\* the step in which App::run drains the channel of a run that had commands
DrainStep == entities' # entities /\ call' = call

\* the run whose only commands are those of one "queue_s4" function
S4Run ==
    /\ Len(sent') = 3
    /\ \A i \in 1..3 : sent'[i].producer = sent'[1].producer
    /\ [i \in 1..3 |-> sent'[i].name] = CommandsOf("queue_s4")

\* C13: the commands a system has queued are applied in the order it queued
\* them, the commands of an earlier wave before those of a later wave of
\* the run; and a run of one system that queues create_entity,
\* create_entity, destroy_entity(first created) leaves, of the two new
\* entities, exactly the second alive and every other entity as it was.
C13_CommandsAppliedInOrder ==
    [][DrainStep =>
          /\ \A i, j \in 1..Len(applied') :
                i < j =>
                    /\ applied'[i].wave <= applied'[j].wave
                    /\ applied'[i].producer = applied'[j].producer
                          => applied'[i].seq < applied'[j].seq
          /\ S4Run =>
                LET first == Unwrap(applied'[1].entity)
                    second == Unwrap(applied'[2].entity)
                IN  /\ ~EntityMap_entity_exists(entities', first)
                    /\ second \notin Entities_iter(entities)
                    /\ Entities_iter(entities')
                          = Entities_iter(entities) \cup {second}]_vars

\* C14: when App::run has returned, every command queued during the run
\* has been applied exactly once, and none is left in the channel.
C14_EveryCommandAppliedOnce ==
    run.phase = "idle" =>
        /\ queue = << >>
        /\ Len(applied) = Len(sent)
        /\ \A i \in 1..Len(sent) :
              Cardinality({j \in 1..Len(applied) :
                              /\ applied[j].producer = sent[i].producer
                              /\ applied[j].seq = sent[i].seq
                              /\ applied[j].name = sent[i].name}) = 1

\* a set of two waves has run, each wave's function having queued two commands
C14_Witness ==
    /\ run.phase = "idle"
    /\ Len(applied) = 4
    /\ applied[1].wave = 1
    /\ applied[4].wave = 2

\* the ids of the dead slots of the registry
DeadIds(em) == {i - 1 : i \in {j \in 1..Len(em.entities) : em.entities[j].generation % 2 # 0}}

Lowest(ids) == CHOOSE i \in ids : \A j \in ids : i <= j

\* C15: in a state with at least one dead slot, create_entity reuses a
\* dead slot: the id it returns is at most the lowest dead id and no slot
\* is appended, and the handle it returns was never returned before.
C15_CreateReusesDeadSlot ==
    [][(call'.op = "create_entity" /\ entities' # entities
            /\ DeadIds(entities) # {}) =>
          LET e == call'.entities[1] IN
          /\ e.id <= Lowest(DeadIds(entities))
          /\ Len(entities'.entities) = Len(entities.entities)
          /\ e \notin returned]_vars

\* C16: e1 = create_entity(); destroy_entity(e1); e2 = create_entity(), with
\* nothing in between, give e2.id = e1.id, both generations even, and
\* e2.generation = e1.generation + 2.
C16_CreateDestroyCreate ==
    call.op = "create_destroy_create" =>
        LET e1 == call.entities[1]
            e2 == call.entities[2]
        IN  /\ e2.id = e1.id
            /\ e1.generation % 2 = 0
            /\ e2.generation % 2 = 0
            /\ e2.generation = e1.generation + 2

\* C17: next_free_entity is at most the id of every dead slot: it is the
\* smallest id that is dead or past the end.
C17_CursorIsLowestFree ==
    entities.next_free_entity
        = Lowest(DeadIds(entities) \cup {Len(entities.entities)})

\* C18: for every query shape, Query::get_many_mut(es) is None whenever es
\* holds the same handle twice.
C18_GetManyMutRejectsDuplicates ==
    (call.op = "query_get_many_mut" /\ ~PairwiseDistinct(call.entities))
        => call.result = None

\* C19: for every query shape and every array es of pairwise distinct
\* handles, Query::get_many_mut(es) is get_mut of each handle: None iff
\* get_mut is None for some handle of es, and otherwise the array of what
\* get_mut gives for es[1], es[2], ...
C19_GetManyMutIsGetMutOfEach ==
    [][(call'.op = "query_get_many_mut" /\ PairwiseDistinct(call'.entities)) =>
          LET q == QueryShapes[call'.type]
              es == call'.entities
              each == [i \in 1..Len(es) |-> Trait_get_mut(components, q, es[i])]
          IN  IF \E i \in 1..Len(es) : each[i] = None
              THEN call'.result = None
              ELSE call'.result = Some([i \in 1..Len(es) |-> Unwrap(each[i])])]_vars

\* the waves of old that the system fits in: it conflicts with none of
\* the systems placed there
Fits(old, system) ==
    {k \in 1..Len(old) :
        \A i \in 1..Len(old[k].systems) : ConflictFree(old[k].systems[i], system)}

\* new is old with one system more, placed first-fit
FirstFit(old, new) ==
    \E k \in 1..Len(new) :
        LET system == new[k].systems[Len(new[k].systems)] IN
        /\ \A j \in 1..Len(old) : j # k => new[j].systems = old[j].systems
        /\ IF k <= Len(old)
           THEN /\ Len(new) = Len(old)
                /\ new[k].systems = Append(old[k].systems, system)
                /\ k = Lowest(Fits(old, system))
           ELSE /\ Len(new) = Len(old) + 1
                /\ new[k].systems = << system >>
                /\ Fits(old, system) = {}

\* C20: register_system is greedy first-fit: the system goes to the
\* lowest-index wave whose borrows do not conflict with its own, a new
\* wave holding only the system is appended exactly when every wave
\* conflicts, and the systems placed before stay where they are.
C20_RegisterIsFirstFit ==
    [][/\ (run.phase = "idle" /\ system_groups' # system_groups)
             => FirstFit(system_groups, system_groups')
       /\ (nested_groups' # nested_groups /\ nested_groups' # << >>)
             => FirstFit(nested_groups, nested_groups')]_vars

\* a system has been placed in the second wave with a system that was
\* there already, the first wave conflicting with it
C20_Witness ==
    /\ Len(system_groups) = 2
    /\ Len(system_groups[1].systems) = 1
    /\ Len(system_groups[2].systems) = 2
    /\ \A i \in 1..2 :
          ~ConflictFree(system_groups[1].systems[1], system_groups[2].systems[i])

\* the parameter list names a type twice, with the two modes
Mixed(params, b1, b2) ==
    \E i, j \in 1..Len(params) :
        /\ i # j
        /\ params[i].kind = params[j].kind /\ params[i].id = params[j].id
        /\ params[i].borrow_type = b1 /\ params[j].borrow_type = b2

\* the parameter list names the type in both modes
MixedOn(params, kind, id) ==
    \E i, j \in 1..Len(params) :
        /\ params[i].kind = kind /\ params[i].id = id
        /\ params[j].kind = kind /\ params[j].id = id
        /\ params[i].borrow_type = "Immutable" /\ params[j].borrow_type = "Mutable"

\* C21: register_system of a system whose parameter list declares the same
\* resource or the same component both Shared and Exclusive, in either
\* order, panics, the message naming such a type, and the set is as it was:
\* the system is in no wave.
C21_MixedBorrowPanics ==
    call.op = "register_system" =>
        LET r == Unwrap(call.result) IN
        Mixed(r.params, "Immutable", "Mutable") =>
            /\ r.panic
            /\ MixedOn(r.params, r.kind, call.type)
            /\ system_groups = r.before

\* a system that reads and writes a type is refused by a set that has
\* systems already, the writing parameter coming last
C21_Witness ==
    /\ call.op = "register_system"
    /\ Unwrap(call.result).panic
    /\ Unwrap(call.result).before # << >>
    /\ Len(Unwrap(call.result).params) = 2
    /\ Unwrap(call.result).params[2].borrow_type = "Mutable"
    /\ Unwrap(call.result).params[1].borrow_type = "Immutable"

\* C22: register_system of a system whose parameter list declares the same
\* type twice with the same mode, twice Shared or twice Exclusive, does not
\* panic, and the system is placed with the type once in its borrows.
C22_SameModeTwiceTolerated ==
    call.op = "register_system" =>
        LET r == Unwrap(call.result) IN
        (/\ Mixed(r.params, "Immutable", "Immutable")
               \/ Mixed(r.params, "Mutable", "Mutable")
         /\ ~Mixed(r.params, "Immutable", "Mutable")) =>
            /\ ~r.panic
            /\ CountSystems(system_groups, 1) = CountSystems(r.before, 1) + 1

\* C22 as amended: twice Shared, with no Exclusive borrow of a type named
\* twice, is tolerated: the system is placed and its wave holds each of
\* its types in the mode declared; twice Exclusive panics as a mixed pair
\* does, and the set is as it was.
C22_TwiceSharedTolerated ==
    call.op = "register_system" =>
        LET r == Unwrap(call.result) IN
        /\ IF /\ Mixed(r.params, "Immutable", "Immutable")
              /\ ~Mixed(r.params, "Immutable", "Mutable")
              /\ ~Mixed(r.params, "Mutable", "Mutable")
           THEN /\ ~r.panic
                /\ CountSystems(system_groups, 1) = CountSystems(r.before, 1) + 1
                /\ \E k \in 1..Len(system_groups) :
                      /\ system_groups[k].systems[Len(system_groups[k].systems)].params
                             = r.params
                      /\ \A i \in 1..Len(r.params) :
                            GroupMap(system_groups[k], r.params[i].kind)[r.params[i].id]
                               = r.params[i].borrow_type
           ELSE TRUE
        /\ IF Mixed(r.params, "Mutable", "Mutable")
           THEN r.panic /\ system_groups = r.before
           ELSE TRUE

\* a system that reads a type twice has been placed
C22_Witness ==
    /\ call.op = "register_system"
    /\ Mixed(Unwrap(call.result).params, "Immutable", "Immutable")
    /\ ~Unwrap(call.result).panic
    /\ system_groups # Unwrap(call.result).before

\* every system of the wave has returned
Returned(tasks) == \A i \in 1..Len(tasks) : tasks[i].pc = "done"

\* the tasks of one set between two states: a wave is left only when all
\* its systems have returned, for the next wave, whose systems have not
\* run; within a wave a system that has returned does not run again
WaveOrder(wave, tasks, wave2, tasks2, groups) ==
    /\ wave2 # wave =>
          /\ Returned(tasks)
          /\ wave2 = wave + 1
          /\ Len(tasks2) = Len(groups[wave2].systems)
          /\ \A t \in 1..Len(tasks2) :
                groups[wave2].systems[t].kind = "fn"
                    => tasks2[t].pc \in {"lock", "run"}
    /\ wave2 = wave =>
          /\ Len(tasks2) = Len(tasks)
          /\ \A t \in 1..Len(tasks) : tasks[t].pc = "done" => tasks2[t].pc = "done"

\* C23: when a set runs, every system of wave k has returned before any
\* system of wave k + 1 starts, the waves run in their order, and each
\* system of the set runs once in the run: the run starts with wave 1,
\* ends after the last wave, and between the two WaveOrder holds, for the
\* set and for the sets nested in it.
C23_WavesInOrderOncePerRun ==
    [][/\ (run.phase = "idle" /\ run'.phase = "running") =>
             WaveOrder(0, << >>, run'.wave, run'.tasks, system_groups')
       /\ (run.phase = "running" /\ run'.phase = "running") =>
             /\ WaveOrder(run.wave, run.tasks, run'.wave, run'.tasks, system_groups')
             /\ run'.wave = run.wave =>
                   \A t \in 1..Len(run.tasks) :
                       (run.tasks[t].pc = "set" /\ run'.tasks[t].pc = "set") =>
                           WaveOrder(run.tasks[t].wave, run.tasks[t].tasks,
                                     run'.tasks[t].wave, run'.tasks[t].tasks,
                                     system_groups'[run.wave].systems[t].system_groups)
       /\ (run.phase = "running" /\ run'.phase = "idle") =>
             /\ Returned(run.tasks)
             /\ run.wave = Len(system_groups)
       /\ \A t \in 1..Len(run.tasks) :
             (run.phase = "running" /\ run'.phase = "running"
                  /\ run'.wave = run.wave
                  /\ run.tasks[t].pc = "set" /\ run'.tasks[t].pc = "done") =>
                 /\ Returned(run.tasks[t].tasks)
                 /\ run.tasks[t].wave
                       = Len(system_groups[run.wave].systems[t].system_groups)]_vars

\* the second wave of a set runs, after a first wave of two systems
C23_Witness ==
    /\ run.phase = "running"
    /\ run.wave = 2
    /\ Len(system_groups[1].systems) = 2
    /\ \E t \in 1..Len(run.tasks) : run.tasks[t].pc = "done"

\* C24: remove_component::<C>(e) on an entity e that exists returns the
\* value most recently passed to add_component::<C>(e, _) and not removed
\* since, or None when there is none; after the call Query::get(e) for C
\* is None.
C24_RemoveReturnsLastAdded ==
    [][(call'.op = "remove_component" /\ call' # call
            /\ App_entity_exists(call'.entities[1])) =>
          LET e == call'.entities[1]
              c == call'.type
          IN  /\ call'.result = IF << e, c >> \in DOMAIN attached
                                THEN Some(attached[<< e, c >>])
                                ELSE None
              /\ Query_get(components', c, e) = None]_vars

\* a component added twice has been removed, with the second value
C24_Witness ==
    /\ call.op = "remove_component"
    /\ call.result = Some(2)
    /\ Len(entities.entities) = 2

\* C25: remove_resource::<R>() returns the value most recently passed to
\* add_resource::<R> and not removed since, or None when there is none;
\* afterwards R is absent.
C25_RemoveResourceReturnsLastAdded ==
    [][(call'.op = "remove_resource" /\ call'.type \notin DOMAIN provided') =>
          LET r == call'.type IN
          /\ call'.result = IF r \in DOMAIN provided
                            THEN Some(provided[r]) ELSE None
          /\ r \notin DOMAIN resources']_vars

\* a resource added twice has been removed, with the second value
C25_Witness ==
    /\ call.op = "remove_resource"
    /\ call.result = Some(2)
    /\ current_tick = 1

\* the handle is the one the registry holds for its id
Live(em, e) ==
    e.id < Len(em.entities) /\ em.entities[e.id + 1].generation = e.generation

\* the run whose only command is the named one
OneCommand(name) == Len(applied') = 1 /\ applied'[1].name = name

\* C26: add_component(e, v) and remove_component(e), called directly or
\* through Commands::add_components and remove_components, are no-ops when
\* entity_exists(e) is false: the registry and every table are unchanged,
\* and remove_component returns None.
C26_DeadHandleNoOp ==
    [][/\ (call'.op \in {"add_component", "remove_component"}
              /\ call' # call
              /\ ~Live(entities, call'.entities[1])) =>
             /\ entities' = entities
             /\ components' = components
             /\ (call'.op = "remove_component" => call'.result = None)
       /\ (call' = call
              /\ (OneCommand("add_components") \/ OneCommand("remove_components"))
              /\ ~Live(entities, Target)) =>
             /\ entities' = entities
             /\ components' = components]_vars

\* a function's add_components for a destroyed handle has been drained: no
\* table of the component was made, which an add on a live handle makes
C26_Witness ==
    /\ Len(applied) = 1
    /\ applied[1].name = "add_components"
    /\ Target \in destroyed
    /\ ~Live(entities, Target)
    /\ "A" \notin DOMAIN components

\* a function of the running wave has panicked
Panicked(tasks) == \E t \in 1..Len(tasks) : tasks[t].pc = "panicked"

\* C27: if a user system panics during App.run, the panic propagates out of
\* App.run, none of the commands queued during that run (by any system) is
\* applied to the App, and every table and resource lock taken by the run
\* has been released.
C27_PanicDropsCommandsAndGuards ==
    [][(run.phase = "running" /\ Panicked(run.tasks) /\ run'.phase = "idle") =>
          /\ call'.op = "run" /\ call'.type = "panic"
          /\ entities' = entities
          /\ components' = components
          /\ applied' = << >>
          /\ queue' = << >>
          /\ \A key \in DOMAIN locks' : locks'[key] = RwLock_new]_vars

\* a run has ended in the panic of a function that held the guard of A,
\* the commands of two functions in the channel
C27_Witness ==
    /\ run.phase = "idle"
    /\ call.op = "run"
    /\ call.type = "panic"
    /\ "A" \in DOMAIN components
    /\ \E i, j \in 1..Len(sent) : sent[i].producer # sent[j].producer

\* the handles the App has returned that its registry holds
AliveHandles(em, handles) == {h \in handles : Live(em, h)}

\* C28: after App.run drains a Commands::create_entity(bundle), the alive
\* set has grown by exactly one entity, every previously alive entity is
\* still alive with its components unchanged, and the new entity has exactly
\* the bundle's components.
C28_SpawnAddsOneEntity ==
    [][(call' = call /\ applied' # applied /\ OneCommand("create_entity_A")) =>
          LET new == applied'[1].entity[1]
              before == AliveHandles(entities, returned)
          IN  /\ new \notin before
              /\ AliveHandles(entities', returned') = before \cup {new}
              /\ \A h \in before :
                    Query_get(components', "A", h) = Query_get(components, "A", h)
              /\ IsSome(Query_get(components', "A", new))
              /\ Unwrap(Query_get(components', "A", new)).component = 1
              /\ entities'.entities[new.id + 1].types = {"A"}]_vars

\* the rows of the tables: the type, the slot and the generation of each
Rows(comps) ==
    UNION {{<< c, i, comps[c][i][1].generation >> :
               i \in {j \in 1..Len(comps[c]) : IsSome(comps[c][j])}} :
           c \in DOMAIN comps}

\* C29: no command takes effect while a run is in progress: from the start
\* of App.run until every system of every wave has returned, the entity
\* registry and the presence of every component row are unchanged, so a
\* system in a later wave does not see the effects of commands queued in an
\* earlier wave of the same run.
C29_NoCommandDuringRun ==
    [][run'.phase = "running" =>
          /\ entities' = entities
          /\ Rows(components') = Rows(components)
          /\ applied' = << >>]_vars

\* the function of the second wave runs, the first entity's A still there
\* and the remove_components of the first wave in the channel
C29_Witness ==
    /\ run.phase = "running"
    /\ run.wave = 2
    /\ \E i \in 1..Len(queue) :
          queue[i].wave = 1 /\ queue[i].name = "remove_components"
    /\ IsSome(Query_get(components, "A", Target))
    /\ \E t \in 1..Len(run.tasks) : run.tasks[t].pc = "run"

\* the system at place t of wave w of the set
SystemAt(groups, w, t) == groups[w].systems[t]

\* the places of the systems of the set
Places(groups) ==
    {<< w, t >> : w \in 1..Len(groups), t \in 1..MaxSystems} \cap
    UNION {{<< w, t >> : t \in 1..Len(groups[w].systems)} : w \in 1..Len(groups)}

\* the function at the place returns in this step
Returns(w, t) ==
    /\ run.phase = "running"
    /\ run.wave = w
    /\ run.tasks[t].pc = "run"
    /\ run'.tasks[t].pc = "done"

\* C30: a system wrapper's last_run_tick is 0 from its creation (including
\* each closure newly passed to App::run) until its first run, and each run
\* sets it to the current_tick of that run, so the value handed to the
\* parameters on run n+1 is the current_tick of run n.
C30_LastRunTick ==
    [][/\ \A p \in Places(system_groups') :
             SystemAt(system_groups', p[1], p[2]).last_run_tick =
                 IF p \notin Places(system_groups)
                 THEN 0
                 ELSE IF Returns(p[1], p[2])
                 THEN current_tick
                 ELSE SystemAt(system_groups, p[1], p[2]).last_run_tick
       /\ \A o \in obs' \ obs :
             o.last_run_tick =
                 IF o.system = << 0 >>
                 THEN 0
                 ELSE SystemAt(system_groups, o.system[1], o.system[2]).last_run_tick
       /\ \A o \in obs' \ obs : ~o.ran_before => o.last_run_tick = 0]_vars

\* a function of the set has run at tick 1 and, run again, has been
\* handed 1
C30_Witness ==
    /\ \E o \in obs : o.system # << 0 >> /\ o.ran_before /\ o.last_run_tick = 1
    /\ \E p \in Places(system_groups) :
          SystemAt(system_groups, p[1], p[2]).last_run_tick = 1

\* C31: current_tick starts at 0 and never decreases; next_tick increases it
\* by exactly 1 and no other App operation (create/destroy entity, add/remove
\* component or resource, run, draining the built-in commands) changes it; a
\* running system sees the same current_tick for its whole run.
C31_TickOnlyByNextTick ==
    /\ current_tick = 0
    /\ [][/\ current_tick' >= current_tick
          /\ (call'.op = "next_tick" /\ call.op # "next_tick") =>
                 current_tick' = current_tick + 1
          /\ current_tick' # current_tick =>
                 /\ current_tick' = current_tick + 1
                 /\ call'.op = "next_tick"
                 /\ run.phase = "idle"
                 /\ UNCHANGED <<entities, components, resources, schedVars>>
          /\ (run.phase = "running" \/ run'.phase = "running") =>
                 current_tick' = current_tick]_vars

\* at tick 1 a run of the set has drained an add_components, the row it
\* made stamped 1
C31_Witness ==
    /\ current_tick = 1
    /\ run.phase = "idle"
    /\ Len(applied) >= 1
    /\ applied[1].name = "add_components"
    /\ IsSome(Query_get(components, "A", Target))
    /\ Unwrap(Query_get(components, "A", Target)).last_modified_tick = 1

\* the last_modified_tick of every row of every table
TicksOf(comps) ==
    [c \in DOMAIN comps |->
        [i \in 1..Len(comps[c]) |->
            IF IsSome(comps[c][i]) THEN comps[c][i][1].last_modified_tick ELSE -1]]

\* the function with the body at a place of the set returns in this step
BodyReturns(body) ==
    \E p \in Places(system_groups) :
        Returns(p[1], p[2]) /\ SystemAt(system_groups, p[1], p[2]).body = body

\* a closure handed to App::run has written a table
ClosureWrites ==
    /\ run.phase = "idle"
    /\ run' = run
    /\ call' = call
    /\ components' # components

\* C32: mutating a component through RefMut::silently_modify (or a resource
\* through ResMut::silently_modify) leaves its last_modified_tick unchanged,
\* so no system's get_modified() changes because of it; only deref_mut
\* stamps the tick.
C32_SilentKeepsTick ==
    [][/\ (BodyReturns("silent") \/ ClosureWrites) =>
             /\ TicksOf(components') = TicksOf(components)
             /\ resources' = resources
             /\ \A p \in Places(system_groups), c \in DOMAIN components :
                   \A i \in 1..Len(components[c]) :
                       IsSome(components[c][i]) =>
                           get_modified(SystemAt(system_groups, p[1], p[2]).last_run_tick,
                                        components'[c][i][1].last_modified_tick)
                             = get_modified(SystemAt(system_groups, p[1], p[2]).last_run_tick,
                                            components[c][i][1].last_modified_tick)
       /\ BodyReturns("mutate") =>
             \A i \in Query_iter(entities, components, "A") :
                 components'["A"][i][1].last_modified_tick = current_tick
       /\ TicksOf(components') # TicksOf(components) =>
             (BodyReturns("mutate") \/ call' # call)]_vars

\* the silent function of the set has run at tick 1 and has raised the
\* value of a row that is still stamped 0, an observer registered with it
C32_Witness ==
    /\ current_tick = 1
    /\ \E p \in Places(system_groups) :
          /\ SystemAt(system_groups, p[1], p[2]).body = "silent"
          /\ SystemAt(system_groups, p[1], p[2]).params = Writer
          /\ SystemAt(system_groups, p[1], p[2]).last_run_tick = 1
    /\ \E p \in Places(system_groups) :
          SystemAt(system_groups, p[1], p[2]).body = "observe"
    /\ \E e \in returned :
          /\ IsSome(Query_get(components, "A", e))
          /\ Unwrap(Query_get(components, "A", e)).component >= 2
          /\ Unwrap(Query_get(components, "A", e)).last_modified_tick = 0

\* C33: add_component::<C>(e, v) on an alive entity stores v as e's single
\* C, replacing any C already attached, records e's generation in the slot,
\* and sets the slot's last_modified_tick to the App's current_tick, on
\* first insertion and on re-insertion alike.
C33_AddComponentReplacesAndStamps ==
    [][(call'.op = "add_component" /\ call' # call
            /\ Live(entities, call'.entities[1])) =>
          LET e == call'.entities[1]
              c == call'.type
          IN  /\ c \in DOMAIN components'
              /\ Len(components'[c]) > e.id
              /\ components'[c][e.id + 1] =
                     Some([generation |-> e.generation, component |-> call'.aux,
                           last_modified_tick |-> current_tick])
              /\ Query_get(components', c, e) = components'[c][e.id + 1]
              /\ \A i \in 1..Len(components'[c]) :
                    (i # e.id + 1 /\ c \in DOMAIN components
                         /\ i <= Len(components[c])) =>
                        components'[c][i] = components[c][i]
              /\ c \in entities'.entities[e.id + 1].types]_vars

\* at tick 1 a component of value 2 has been added to an entity, a row of
\* the table still stamped 0
C33_Witness ==
    /\ call.op = "add_component"
    /\ current_tick = 1
    /\ call.aux = 2
    /\ Query_get(components, "A", call.entities[1]) =
           Some([generation |-> call.entities[1].generation, component |-> 2,
                 last_modified_tick |-> 1])
    /\ \E i \in 1..Len(components["A"]) :
          /\ IsSome(components["A"][i])
          /\ components["A"][i][1].last_modified_tick = 0

\* the handle is past the end of the registry, is not the one the App last
\* returned for its id, or has been destroyed
NotAlive(h) ==
    \/ h.id >= Len(entities.entities)
    \/ h.id \notin DOMAIN latest
    \/ latest[h.id] # h
    \/ h \in destroyed

\* C34: destroy_entity on a handle that is not alive (id past-the-end, stale
\* generation, or already destroyed) changes nothing: every registry slot,
\* next_free_entity and every component table are unchanged, and
\* EntityMap::destroy_entity returns None; in particular destroying the same
\* handle twice has the effect of destroying it once.
C34_DestroyDeadChangesNothing ==
    [][(call'.op = "destroy_entity" /\ NotAlive(call'.entities[1])) =>
          /\ entities' = entities
          /\ components' = components
          /\ EntityMap_destroy_entity(entities, call'.entities[1]).result = None]_vars

\* the borrows a function's parameters declare
ParamsOf(system) == {system.params[j] : j \in 1..Len(system.params)}

\* the systems of the waves of a set
SystemsOf(groups) ==
    UNION {{groups[k].systems[i] : i \in 1..Len(groups[k].systems)} :
              k \in 1..Len(groups)}

\* the borrows of the functions of a set, those of its nested sets included
LeafBorrows(groups) ==
    UNION {IF sys.kind = "fn"
           THEN ParamsOf(sys)
           ELSE UNION {ParamsOf(f) : f \in SystemsOf(sys.system_groups)} :
           sys \in SystemsOf(groups)}

\* C35: the borrows a SystemSet declares when used as a system (so that it
\* can be nested) contain each resource and component type borrowed by any
\* of its systems exactly once, Exclusive if any system in any wave borrows
\* it Exclusive and Shared otherwise.
C35_SetBorrowsAreUnion ==
    \A groups \in AllSets, kind \in {"resource", "component"} :
        LET ts == get_types(SystemSetAsSystem(groups), kind)
            leaves == {b \in LeafBorrows(groups) : b.kind = kind}
        IN  /\ \A i, j \in 1..Len(ts) : ts[i].id = ts[j].id => i = j
            /\ {ts[i].id : i \in 1..Len(ts)} = {b.id : b \in leaves}
            /\ \A i \in 1..Len(ts) :
                  /\ ts[i].kind = kind
                  /\ ts[i].borrow_type =
                         IF \E b \in leaves : b.id = ts[i].id /\ b.borrow_type = "Mutable"
                         THEN "Mutable"
                         ELSE "Immutable"

\* a set registered as a system whose first wave reads a type that its
\* second wave writes
C35_Witness ==
    \E p \in NestedSets(system_groups) :
        LET inner == system_groups[p[1]].systems[p[2]].system_groups IN
        /\ Len(inner) >= 2
        /\ \E kind \in {"resource", "component"} :
              \E id \in DOMAIN GroupMap(inner[1], kind) \cap DOMAIN GroupMap(inner[2], kind) :
                  /\ GroupMap(inner[1], kind)[id] = "Immutable"
                  /\ GroupMap(inner[2], kind)[id] = "Mutable"

\* C36: generation arithmetic never wraps silently: with generations held in
\* a w-bit word, reviving a dead slot whose generation + 1 does not fit in
\* the word is a fatal error (panic), and create_entity never returns a
\* handle whose generation has wrapped to a smaller value.
C36_GenerationNeverWraps ==
    [][/\ \A i \in 1..Len(entities.entities) :
             /\ entities'.entities[i].generation >= entities.entities[i].generation
             /\ entities'.entities[i].generation \in 1..WordMax
       /\ (call'.op = "create_entity" /\ call' # call) =>
             LET id == entities.next_free_entity IN
             IF id < Len(entities.entities)
                   /\ entities.entities[id + 1].generation = WordMax
             THEN call'.type = "panic" /\ entities' = entities
             ELSE /\ call'.type = ""
                  /\ call'.entities[1].generation \in 1..WordMax
                  /\ id < Len(entities.entities) =>
                        call'.entities[1].generation >
                            entities.entities[id + 1].generation]_vars

\* create_entity has panicked on a dead slot that holds the last generation
\* of the word
C36_Witness ==
    /\ call.op = "create_entity"
    /\ call.type = "panic"
    /\ entities.next_free_entity < Len(entities.entities)
    /\ entities.entities[entities.next_free_entity + 1].generation = WordMax

\* C37: a conflict between two borrows declared by one system is reported
\* by the registration check before that system first runs, so no run
\* started through App.run, of a SystemSet or of a function passed
\* directly, reaches a failed try_read / try_write at run time.
C37_NoRunReachesFailedLock == lock_failed = FALSE

\* the table of c has a present slot at index i
Present(c, i) ==
    c \in DOMAIN components /\ i <= Len(components[c]) /\ IsSome(components[c][i])

\* C38: registry and component tables stay consistent in every reachable
\* App state: the table of type T has a present slot at id with stored
\* generation g if and only if the registry slot id is alive with
\* generation g and its attached-type set contains T; a destroyed entity
\* leaves no row behind and its slot's attached set is empty.
C38_RegistryAndTablesConsistent ==
    /\ \A c \in ComponentTypes, i \in 1..(MaxEntities + 1), g \in 1..(MaxGeneration + 2) :
          (Present(c, i) /\ components[c][i][1].generation = g)
              <=> /\ i <= Len(entities.entities)
                  /\ entities.entities[i].generation = g
                  /\ g % 2 = 0
                  /\ c \in entities.entities[i].types
    /\ \A i \in 1..Len(entities.entities) :
          entities.entities[i].generation % 2 # 0 =>
              /\ entities.entities[i].types = {}
              /\ \A c \in ComponentTypes : ~Present(c, i)

\* C39: Query::iter and Query::get agree in every reachable state and for
\* every query shape Q: iter yields (e, v) for exactly those alive entities
\* e for which get(e) returns Some, and v is the view get(e) returns (the
\* same component value and the same get_modified()).
C39_IterAgreesWithGet ==
    call.op = "iter" =>
        LET q == QueryShapes[call.type]
            rows == call.result
        IN  {rows[i] : i \in 1..Len(rows)}
                = {<< e, Unwrap(Trait_get_mut(components, q, e)) >> :
                      e \in {h \in Entities_iter(entities) :
                                IsSome(Trait_get_mut(components, q, h))}}

\* C40: in the stand-alone ECS type a destroyed handle never becomes valid
\* again: once destroy_entity(e) has returned true, is_entity_valid(e) is
\* false after every later sequence of create_entity / destroy_entity
\* calls, that is, create_entity never returns a handle equal to one that
\* was destroyed.
C40_DestroyedHandleNeverValidAgain ==
    \A e \in killed : ~ECS_is_entity_valid(entities, e)
====
